---- MODULE Spec2Model ----
(***************************************************************************)
(* Grid animation engine of the tiling viewer: GridAnimator (phase state   *)
(* machine, batched glyph-change scheduler, zoom transform) and GlyphGrid  *)
(* (grid layout); TurboTiler's event handlers; the app shell (switchApp)   *)
(* and WordAnimator's timer chain.                                         *)
(*                                                                         *)
(* Conventions                                                             *)
(*  - time is in milliseconds; Advance moves the clock to the next timer   *)
(*    deadline, a timer whose remaining time is 0 must run first;          *)
(*  - lengths are in pixels, scales in hundredths (0.12 is 12, 1.0 is      *)
(*    100), translations in hundredths of a pixel;                         *)
(*  - a pending timer is kept where the code keeps its id, as a record     *)
(*    with the time left; ids of timers that already ran are dropped       *)
(*    (clearTimeout on them is a no-op);                                   *)
(*  - every Math.random() draw is an argument chosen by the action;        *)
(*  - obs holds observation (history) fields only; no modelled code reads  *)
(*    them.                                                                *)
(***************************************************************************)
EXTENDS Integers, Sequences, FiniteSets, TLC

VARIABLES anim, grid, dom, obs, app, shell, word

vars == <<anim, grid, dom, obs, app, shell, word>>

-----------------------------------------------------------------------------
(* Bounds of the model *)

\* number of cells of the grid the animator runs on (the code's minimum is 13 x 13)
NumCells == 2
\* timing.zoomIn, timing.zoomOut (6000 in the code), timing.dwell, timing.dwellOut
\* (1000), scaled so that a zoom and a dwell-out run take two ticks, the second
\* one a partial interval
timingZoomIn == 575
timingZoomOut == 575
timingDwell == 100
timingDwellOut == 75
\* maxCellUpdatesPerTick (12 in the code), scaled with NumCells
maxCellUpdatesPerTick == 1
\* glyphChangeSettings.zoom.minPerCell / maxPerCell (4 and 10 in the code)
zoomMinPerCell == 1
zoomMaxPerCell == 1
\* pending "re-enable transitions" callbacks of reset() that may be queued at once
MaxRestoreTimers == 1
\* viewport sizes offered to populate(), in units of 20 px
MaxViewportUnits == 2
\* largest zoomOutScale offered to populate(), in hundredths
MaxZoomOutScale == 60
\* the scheduler on its own: cells of the grid, largest duration (in units of
\* 25 ms) and largest per-cell change count offered to it
SchedCells == 2
SchedMaxDuration == 3
SchedMaxPerCell == 2
\* user events (font drops and resize events) in a behaviour
MaxUserEvents == 2
\* glyph lists offered to populate(): up to MaxGlyphs glyphs
MaxGlyphs == 2
\* avar coordinates: [-1, 1] in steps of 1 / AvarSteps; pairs per segment map
AvarSteps == 1
\* switchApp() calls after the one made when the module loads
MaxSwitchCalls == 4
\* start(), stop() and updateAnimationDelay() calls on a WordAnimator
MaxWordCalls == 4
MaxPairs == 2

-----------------------------------------------------------------------------
(* Program constants *)

ZOOM_IN == "zoom_in"
DWELL == "dwell"
ZOOM_OUT == "zoom_out"
States == {ZOOM_IN, DWELL, ZOOM_OUT}

glyphChangeBatchIntervalMs == 50
bootstrapHoldMs == 500
staticTailMs == 500
dwellOutMinPerCell == 0
dwellOutMaxPerCell == 1
zoomScaleMinInit == 12
\* zoomScale.min as syncZoomOutScaleToViewport() sets it
zoomScaleMinSynced == 19
\* the delays of the rebuilds a resize schedules
resizeDelays == {120, 450, 900}
zoomScaleMax == 100
fitFactor == 80
minGridCols == 13
minGridRows == 13
overscanCells == 1
\* minCoverageFactor 1.06, cellWidthFactor 0.5, cellHeightFactor 0.6, in hundredths / tenths
minCoverageFactor == 106
cellWidthFactor == 5
cellHeightFactor == 6

NoTimer == -1

\* the glyph shown for an empty glyph list, and the one-glyph list the
\* animator's grids are filled from
placeholderGlyph == "?"
DefaultGlyphs == <<"A">>
\* a font object without fvar and avar tables
NoFont == [hasFvar |-> FALSE, fvarAxes |-> <<>>, hasAvar |-> FALSE, axisSegmentMaps |-> <<>>]

zoomSettings == [minPerCell |-> zoomMinPerCell, maxPerCell |-> zoomMaxPerCell]
dwellOutSettings == [minPerCell |-> dwellOutMinPerCell, maxPerCell |-> dwellOutMaxPerCell]

-----------------------------------------------------------------------------
(* Arithmetic helpers *)

Max(a, b) == IF a >= b THEN a ELSE b
Min(a, b) == IF a <= b THEN a ELSE b
\* Math.ceil(a / b) for a >= 0, b > 0
CeilDiv(a, b) == (a + b - 1) \div b

RECURSIVE SumTo(_, _)
\* f[0] + ... + f[n-1]
SumTo(f, n) == IF n = 0 THEN 0 ELSE f[n - 1] + SumTo(f, n - 1)

RECURSIVE Repeat(_, _)
\* the sequence of k copies of x
Repeat(x, k) == IF k = 0 THEN <<>> ELSE <<x>> \o Repeat(x, k - 1)

InSeq(x, s) == \E i \in 1..Len(s) : s[i] = x

RECURSIVE DedupFrom(_, _)
DedupFrom(s, acc) ==
  IF s = <<>> THEN acc
  ELSE DedupFrom(Tail(s), IF InSeq(Head(s), acc) THEN acc ELSE Append(acc, Head(s)))

\* Array.from(new Set(batch)): first occurrences, in order
ArrayFromSet(batch) == DedupFrom(batch, <<>>)

SeqToSet(s) == {s[i] : i \in 1..Len(s)}

-----------------------------------------------------------------------------
(* The world the operations act on *)

World == [anim |-> anim, grid |-> grid, dom |-> dom, obs |-> obs, app |-> app]

Commit(w) ==
  /\ anim' = w.anim
  /\ grid' = w.grid
  /\ dom' = w.dom
  /\ obs' = w.obs
  /\ app' = w.app
  /\ shell' = shell
  /\ word' = word

ZeroTarget == [x |-> 0, y |-> 0, cellWidth |-> 0, cellHeight |-> 0]

\* GlyphGrid constructor; content is the glyph shown by each of the first
\* TrackedCells cells
GlyphGridInit ==
  [cells |-> 0, gridCols |-> 0, gridRows |-> 0, hasContainer |-> FALSE,
   zoomOutScale |-> 100, viewportWidth |-> 0, viewportHeight |-> 0,
   containerWidth |-> 0, containerHeight |-> 0, cellWidth |-> 0, cellHeight |-> 0,
   glyphList |-> <<>>, axes |-> <<>>, font |-> NoFont, axisSamplers |-> <<>>,
   content |-> <<>>]

\* GridAnimator constructor
GridAnimatorInit ==
  [currentState |-> DWELL, isPaused |-> FALSE, loopEnabled |-> TRUE,
   zoomScaleMin |-> zoomScaleMinInit,
   currentScale |-> zoomScaleMinInit, currentTarget |-> ZeroTarget, nextTarget |-> <<>>,
   glyphChangeTimerId |-> NoTimer, glyphChangeBatches |-> <<>>,
   glyphChangeTickIndex |-> 0, glyphChangeTotalTicks |-> 0,
   dwellOutEnabled |-> TRUE,
   stateTransitionTimers |-> <<>>]

\* the zoom container's style (scale 0 stands for the unset transform) and
\* the size of the viewport element it sits in
DomInit ==
  [transform |-> [tx |-> 0, ty |-> 0, s |-> 0], transition |-> "",
   restoreTimers |-> 0, width |-> 20, height |-> 20]

\* observation fields:
\*   lastOp         the operation that made the last step
\*   pendingBefore  number of timers pending when that operation began
\*   justEntered    the phase whose start handler ran in the last step, or "none"
\*   lastTick       the cells refreshed by the tick processed in the last step
\*   lastUnique     the number of distinct indices in that tick's bucket
\*   sinceStart     "clean": start() called, no pause()/reset() since;
\*                  "paused": start() called, pause() since, no reset();
\*                  "reset": reset() called, no start() since; else "none"
\*   prevEntered, lastEntered  the last two phases entered since start()
\*   run            the scheduler run: "running", or how it ended in the last
\*                  step: "done" (all ticks processed) or "cut" (cleared
\*                  before the last tick), else "none"
\*   drawn, delivered  per cell, the changes drawn for the run under way
\*                  and the updateCell calls made in it so far
\*   undelivered    when the run is "done": the cells refreshed less often
\*                  in it than changes were drawn for them
\*   stale          the run under way was scheduled against a grid that
\*                  populate() has replaced since
\*   inverted       the invertAvar() call of the last step, if any
\*   populates      for each populate() call of the last step, the number
\*                  of animator timers pending when it ran
\*   viewportDirty  handleResize() has scheduled rebuilds and the grid has
\*                  not been populated since
\*   dropped        the file name of the drop handled in the last step and
\*                  whether it went on to be read
\*   sampled        the sampleAxisValue() calls of the last step, if any, by
\*                  the segment map the sampler was built from
\*   userPaused     the last space key paused the animator (it did not
\*                  resume it) and no font has been dropped since
ObsInit ==
  [lastOp |-> "new", pendingBefore |-> 0, justEntered |-> "none",
   lastTick |-> {}, lastUnique |-> 0,
   sinceStart |-> "none", prevEntered |-> "none", lastEntered |-> "none",
   run |-> "none", drawn |-> <<>>, delivered |-> <<>>, undelivered |-> {},
   stale |-> FALSE, inverted |-> <<>>, populates |-> <<>>, viewportDirty |-> FALSE,
   dropped |-> <<>>, scheduled |-> <<>>, normalized |-> <<>>,
   overdelivered |-> {}, userPaused |-> FALSE, sampled |-> <<>>]

\* TurboTiler constructor: no font, no rebuild timeouts, no animation-frame
\* callbacks requested; currentFont stands for this.currentFont and for
\* fontLoader.currentFont, set when the loader reports the font; loading
\* counts the font loads under way, events the user events handled and
\* reading the dropped files being read
TurboTilerInit ==
  [currentFont |-> FALSE, loading |-> 0, resizeTimeouts |-> {}, frames |-> <<>>, events |-> 0,
   reading |-> 0]

\* the values of the animation-delay slider used: its minimum and its initial
\* value
AnimationDelays == {100, 3000}

\* AppShell: the keys of APPS and a key it does not hold; NoKey and NoApp
\* stand for null
AppKeys == {"hyperflip", "turbotiler"}
NoKey == ""
NoApp == 0

\* app classes that define destroy(): HyperFlip's does, TurboTiler has none
HasDestroy(key) == key = "hyperflip"

\* switchApp(key) up to its await: the current app is torn down, the markup
\* and the title are swapped and the module import is started
switchApp(s, key) ==
  IF key = s.currentKey THEN s
  ELSE LET s1 == [s EXCEPT !.live = {inst \in @ : ~(inst.id = s.currentApp /\ HasDestroy(inst.key))},
                           !.currentApp = NoApp,
                           !.currentKey = NoKey]
       IN IF key \notin AppKeys THEN s1
          ELSE [s1 EXCEPT !.container = key, !.title = key, !.awaiting = Append(@, key)]

\* switchApp() after its await: the i-th import under way has resolved, the
\* class is instantiated on the markup now in the container
importResolved(s, i) ==
  LET key == s.awaiting[i]
      id == s.constructed + 1
  IN [s EXCEPT !.awaiting = SubSeq(@, 1, i - 1) \o SubSeq(@, i + 1, Len(@)),
               !.constructed = id,
               !.live = @ \cup {[id |-> id, key |-> key, markup |-> s.container]},
               !.currentApp = id,
               !.currentKey = key]

\* the module as loaded: currentApp and currentKey null, then
\* switchApp('hyperflip') up to its await; live holds the instances
\* constructed and not destroyed, calls counts the switchApp() calls
AppShellInit ==
  switchApp([currentApp |-> NoApp, currentKey |-> NoKey, container |-> NoKey, title |-> NoKey,
             awaiting |-> <<>>, live |-> {}, constructed |-> 0, calls |-> 0, lastOp |-> "new"],
            "hyperflip")

\* WordAnimator as constructed: no word list, no timers, not animating, the
\* constructor's loadWordList() under way. animationTimer and fadeTimer tell
\* whether the field holds the id of a pending timeout; orphans counts the
\* pending word-update timeouts whose id the object no longer holds; loads
\* lists the loadWordList() calls under way, TRUE for one a start() call
\* awaits. Observations: updated (the displayed word changed in the last
\* step), sinceStop (stop() has returned and start() was not called since),
\* calls and lastOp.
WordAnimatorInit ==
  [isAnimating |-> FALSE, animationDelay |-> 3000, wordListLoaded |-> FALSE,
   animationTimer |-> FALSE, fadeTimer |-> FALSE, orphans |-> 0, loads |-> <<FALSE>>,
   updated |-> FALSE, sinceStop |-> FALSE, calls |-> 0, lastOp |-> "new"]

\* stop()
stop(a) ==
  [a EXCEPT !.isAnimating = FALSE, !.animationTimer = FALSE, !.fadeTimer = FALSE]

\* updateWord() up to its timeout: the fade timer is replaced
updateWord(a) ==
  IF ~a.wordListLoaded \/ ~a.isAnimating THEN a
  ELSE [a EXCEPT !.fadeTimer = TRUE]

\* scheduleNextUpdate(): a timeout is set and its id stored over the one held
scheduleNextUpdate(a) ==
  IF ~a.isAnimating THEN a
  ELSE [a EXCEPT !.orphans = IF a.animationTimer THEN @ + 1 ELSE @,
                 !.animationTimer = TRUE]

\* start(interval) up to its await, or to its end when the list is there
startWordAnimator(a, interval) ==
  IF a.isAnimating THEN a
  ELSE LET a1 == [a EXCEPT !.isAnimating = TRUE, !.animationDelay = interval]
       IN IF ~a1.wordListLoaded
          THEN [a1 EXCEPT !.loads = Append(@, TRUE)]
          ELSE scheduleNextUpdate(updateWord(a1))

\* updateAnimationDelay(newDelay)
updateAnimationDelay(a, newDelay) ==
  LET a1 == [a EXCEPT !.animationDelay = newDelay]
  IN IF a1.isAnimating THEN startWordAnimator(stop(a1), newDelay) ELSE a1

Init ==
  /\ anim = GridAnimatorInit
  /\ grid = GlyphGridInit
  /\ dom = DomInit
  /\ obs = ObsInit
  /\ app = TurboTilerInit
  /\ shell = AppShellInit
  /\ word = WordAnimatorInit

-----------------------------------------------------------------------------
(* GlyphGrid *)

\* requiredCols = Math.ceil(minCoverageFactor / (zoomOutScale * factor)),
\* zoomOutScale in hundredths and factor in tenths: 1.06 / ((z/100) * (f/10))
RequiredCells(zoomOutScale, factor) ==
  CeilDiv(minCoverageFactor * 10, zoomOutScale * factor)

ForceOdd_keepEven(n) == n

\* if (n % 2 === 0) n += 1
ForceOdd(n) == IF n % 2 = 0 THEN n + 1 ELSE n

GridDimension_noClamp(required, minimum) == ForceOdd(required + overscanCells)

\* Math.max(minimum, required + overscanCells), then forced odd
GridDimension(required, minimum) == ForceOdd(Max(minimum, required + overscanCells))

\* the grid size populate() derives from zoomOutScale
LayoutDims(zoomOutScale) ==
  [cols |-> GridDimension(RequiredCells(zoomOutScale, cellWidthFactor), minGridCols),
   rows |-> GridDimension(RequiredCells(zoomOutScale, cellHeightFactor), minGridRows)]

\* number of pending timers: phase-transition timers and the tick interval
PendingTimers(w) ==
  Len(w.anim.stateTransitionTimers) + (IF w.anim.glyphChangeTimerId = NoTimer THEN 0 ELSE 1)

\* the cells whose content is followed: the first TrackedCells of the grid
TrackedCells == Max(NumCells, SchedCells)

\* the indices Math.floor(Math.random() * glyphList.length) can produce, for
\* each followed cell
GlyphDraws(glyphList) == [1..TrackedCells -> 0..Max(0, Len(glyphList) - 1)]

\* the draw when the list has at most one glyph
ZeroDraw == [c \in 1..TrackedCells |-> 0]

randomizeGlyph_noPlaceholder(w, u) ==
  IF Len(w.grid.glyphList) = 0 THEN "" ELSE w.grid.glyphList[u + 1]

\* randomizeGlyph(), u is the index drawn
randomizeGlyph(w, u) ==
  IF Len(w.grid.glyphList) = 0 THEN placeholderGlyph ELSE w.grid.glyphList[u + 1]

\* updateCell(cells[index]), u is the glyph index drawn
updateCell(w, index, u) ==
  IF index + 1 <= Len(w.grid.content)
  THEN [w EXCEPT !.grid.content[index + 1] = randomizeGlyph(w, u)]
  ELSE w

\* updateCell() for every cell of indices, draw[c + 1] the glyph index drawn for cell c
UpdateCells(w, indices, draw) ==
  [w EXCEPT !.grid.content =
     [c \in 1..Len(@) |-> IF (c - 1) \in indices THEN randomizeGlyph(w, draw[c]) ELSE @[c]]]

\* randomizeAll()
randomizeAll(w, draw) == UpdateCells(w, 0..(w.grid.cells - 1), draw)

RECURSIVE InsertPair(_, _)
\* pair put behind the pairs of sorted whose fromCoordinate is not larger
InsertPair(sorted, pair) ==
  IF sorted = <<>> THEN <<pair>>
  ELSE IF Head(sorted).fromCoordinate <= pair.fromCoordinate
       THEN <<Head(sorted)>> \o InsertPair(Tail(sorted), pair)
       ELSE <<pair>> \o sorted

RECURSIVE SortByFrom(_)
\* pairs.sort((left, right) => left.fromCoordinate - right.fromCoordinate), stable
SortByFrom(pairs) ==
  IF pairs = <<>> THEN <<>>
  ELSE InsertPair(SortByFrom(SubSeq(pairs, 1, Len(pairs) - 1)), pairs[Len(pairs)])

\* axisOrder.findIndex(fontAxis => fontAxis.tag === tag), 0 for -1
FindAxisIndex(axisOrder, tag) ==
  IF \E i \in 1..Len(axisOrder) : axisOrder[i] = tag
  THEN CHOOSE i \in 1..Len(axisOrder) :
         axisOrder[i] = tag /\ \A j \in 1..(i - 1) : axisOrder[j] # tag
  ELSE 0

\* createAxisSamplers() for this.font = font, this.axes = axes
createAxisSamplers(font, axes) ==
  IF ~font.hasFvar \/ Len(axes) = 0 THEN <<>>
  ELSE [a \in 1..Len(axes) |->
          LET axisIndex == FindAxisIndex(font.fvarAxes, axes[a].tag)
              pairs == IF axisIndex >= 1 /\ font.hasAvar /\ axisIndex <= Len(font.axisSegmentMaps)
                       THEN SortByFrom(font.axisSegmentMaps[axisIndex]) ELSE <<>>
          IN [tag |-> axes[a].tag,
              hasNonLinearAvar |-> \E i \in 1..Len(pairs) : pairs[i].toCoordinate # pairs[i].fromCoordinate,
              avarPairs |-> pairs]]

\* Normalized coordinates are counted in steps of 1 / AvarSteps; a value that
\* interpolation produces is the fraction num / den of a step, den > 0.
Fraction(num, den) == IF den < 0 THEN [num |-> -num, den |-> -den] ELSE [num |-> num, den |-> den]

\* Math.max(-1, Math.min(1, value))
ClampCoordinate(value) == Max(-AvarSteps, Min(AvarSteps, value))

\* Math.max(-1, Math.min(1, value)) on a fraction
ClampFraction(f) ==
  IF f.num < -AvarSteps * f.den THEN Fraction(-AvarSteps, 1)
  ELSE IF f.num > AvarSteps * f.den THEN Fraction(AvarSteps, 1)
  ELSE f

\* the signed difference taken for the distance
Abs_signed(x) == x

\* Math.abs
Abs(x) == IF x < 0 THEN -x ELSE x

invertAvar_ratioFromCurrent(pairs, targetToCoordinate) ==
  IF Len(pairs) < 2 THEN Fraction(ClampCoordinate(targetToCoordinate), 1)
  ELSE
    LET clampedTarget == ClampCoordinate(targetToCoordinate)
        hits == {i \in 2..Len(pairs) :
                   /\ clampedTarget >= Min(pairs[i - 1].toCoordinate, pairs[i].toCoordinate)
                   /\ clampedTarget <= Max(pairs[i - 1].toCoordinate, pairs[i].toCoordinate)}
        first == pairs[1]
        last == pairs[Len(pairs)]
    IN IF hits # {}
       THEN LET i == CHOOSE h \in hits : \A k \in hits : h <= k
                prev == pairs[i - 1]
                current == pairs[i]
                outputDelta == current.toCoordinate - prev.toCoordinate
            IN IF outputDelta = 0 THEN Fraction(prev.fromCoordinate, 1)
               ELSE ClampFraction(Fraction(
                      prev.fromCoordinate * outputDelta
                        + (clampedTarget - current.toCoordinate)
                            * (current.fromCoordinate - prev.fromCoordinate),
                      outputDelta))
       ELSE IF Abs(clampedTarget - first.toCoordinate) <= Abs(clampedTarget - last.toCoordinate)
            THEN Fraction(ClampCoordinate(first.fromCoordinate), 1)
            ELSE Fraction(ClampCoordinate(last.fromCoordinate), 1)

\* invertAvar(pairs, targetToCoordinate): the first interval whose outputs
\* enclose the clamped target is inverted linearly (a flat one gives its lower
\* pair); without such an interval the endpoint nearer in output is taken
invertAvar(pairs, targetToCoordinate) ==
  IF Len(pairs) < 2 THEN Fraction(ClampCoordinate(targetToCoordinate), 1)
  ELSE
    LET clampedTarget == ClampCoordinate(targetToCoordinate)
        hits == {i \in 2..Len(pairs) :
                   /\ clampedTarget >= Min(pairs[i - 1].toCoordinate, pairs[i].toCoordinate)
                   /\ clampedTarget <= Max(pairs[i - 1].toCoordinate, pairs[i].toCoordinate)}
        first == pairs[1]
        last == pairs[Len(pairs)]
    IN IF hits # {}
       THEN LET i == CHOOSE h \in hits : \A k \in hits : h <= k
                prev == pairs[i - 1]
                current == pairs[i]
                outputDelta == current.toCoordinate - prev.toCoordinate
            IN IF outputDelta = 0 THEN Fraction(prev.fromCoordinate, 1)
               ELSE ClampFraction(Fraction(
                      prev.fromCoordinate * outputDelta
                        + (clampedTarget - prev.toCoordinate)
                            * (current.fromCoordinate - prev.fromCoordinate),
                      outputDelta))
       ELSE IF Abs(clampedTarget - first.toCoordinate) <= Abs(clampedTarget - last.toCoordinate)
            THEN Fraction(ClampCoordinate(first.fromCoordinate), 1)
            ELSE Fraction(ClampCoordinate(last.fromCoordinate), 1)

\* normalizedToAxisValue() scaling either side by the upper half of the range
normalizedToAxisValue_oneSlope(normalizedValue, axis) ==
  LET clamped == ClampFraction(normalizedValue)
  IN Fraction(axis.defaultValue * clamped.den * AvarSteps
                + clamped.num * (axis.maxValue - axis.defaultValue),
              clamped.den * AvarSteps)

\* normalizedToAxisValue(normalizedValue, axis): the value in user units, as
\* a fraction; normalizedValue is a fraction of a step
normalizedToAxisValue(normalizedValue, axis) ==
  LET clamped == ClampFraction(normalizedValue)
  IN IF clamped.num < 0
     THEN Fraction(axis.defaultValue * clamped.den * AvarSteps
                     + clamped.num * (axis.defaultValue - axis.minValue),
                   clamped.den * AvarSteps)
     ELSE Fraction(axis.defaultValue * clamped.den * AvarSteps
                     + clamped.num * (axis.maxValue - axis.defaultValue),
                   clamped.den * AvarSteps)

\* sampleAxisValue(axis), Math.random() having returned random / (2 *
\* AvarSteps): the value in user units, as a fraction
sampleAxisValue(w, axis, random) ==
  LET found == {i \in 1..Len(w.grid.axisSamplers) : w.grid.axisSamplers[i].tag = axis.tag}
      sampler == w.grid.axisSamplers[CHOOSE i \in found : \A j \in found : i <= j]
  IN IF found = {} \/ ~sampler.hasNonLinearAvar \/ Len(sampler.avarPairs) < 2
     THEN Fraction(axis.minValue * 2 * AvarSteps + random * (axis.maxValue - axis.minValue),
                   2 * AvarSteps)
     ELSE LET warpedNormalizedTarget == -AvarSteps + random
              rawNormalized == invertAvar(sampler.avarPairs, warpedNormalizedTarget)
          IN normalizedToAxisValue(rawNormalized, axis)

\* populate(container, glyphList, axes, features, fontFamily, font,
\* zoomOutScale): samplers, geometry and cells for a grid of dims.cols x
\* dims.rows, sized from the viewport read at the call; the old cells are
\* discarded and cellCount new ones created, each filled by updateCell with
\* the glyph drawn for it (cellWidth, cellHeight are populate()'s locals,
\* kept for observation)
populate(w, glyphList, axes, font, zoomOutScale, dims, draw) ==
  LET vw == w.dom.width
      vh == w.dom.height
      cellWidth == (vw * cellWidthFactor) \div 10
      cellHeight == (vh * cellHeightFactor) \div 10
      cellCount == dims.cols * dims.rows
      w1 == [w EXCEPT
        !.grid = [cells |-> cellCount, gridCols |-> dims.cols, gridRows |-> dims.rows,
                  hasContainer |-> TRUE, zoomOutScale |-> zoomOutScale,
                  viewportWidth |-> vw, viewportHeight |-> vh,
                  containerWidth |-> dims.cols * cellWidth,
                  containerHeight |-> dims.rows * cellHeight,
                  cellWidth |-> cellWidth, cellHeight |-> cellHeight,
                  glyphList |-> glyphList, axes |-> axes, font |-> font,
                  axisSamplers |-> createAxisSamplers(font, axes),
                  content |-> [c \in 1..Min(cellCount, TrackedCells) |-> ""]],
        !.obs.stale = (w.obs.run = "running"),
        !.obs.populates = Append(@, PendingTimers(w)),
        !.obs.viewportDirty = FALSE]
  IN randomizeAll(w1, draw)

getCellCount(w) == w.grid.cells

\* getCellInfoByIndex(index), grid gap 0; <<>> stands for null; a stored
\* size of 0 is falsy and falls back to the viewport read now
getCellInfoByIndex(w, index) ==
  IF w.grid.cells = 0 \/ ~w.grid.hasContainer THEN <<>>
  ELSE LET g == w.grid
           row == index \div g.gridCols
           col == index % g.gridCols
           viewportWidth == IF g.viewportWidth # 0 THEN g.viewportWidth ELSE w.dom.width
           viewportHeight == IF g.viewportHeight # 0 THEN g.viewportHeight ELSE w.dom.height
           containerWidth == IF g.containerWidth # 0 THEN g.containerWidth
                             ELSE (viewportWidth * 100) \div g.zoomOutScale
           containerHeight == IF g.containerHeight # 0 THEN g.containerHeight
                              ELSE (viewportHeight * 100) \div g.zoomOutScale
           containerLeft == (viewportWidth - containerWidth) \div 2
           containerTop == (viewportHeight - containerHeight) \div 2
           cellWidth == containerWidth \div g.gridCols
           cellHeight == containerHeight \div g.gridRows
       IN << [index |-> index,
              x |-> containerLeft + col * cellWidth + cellWidth \div 2,
              y |-> containerTop + row * cellHeight + cellHeight \div 2,
              cellWidth |-> cellWidth, cellHeight |-> cellHeight] >>

\* getRandomCell(), index is the random draw
getRandomCell(w, index) ==
  IF w.grid.cells = 0 \/ ~w.grid.hasContainer THEN <<>>
  ELSE getCellInfoByIndex(w, index)

\* getCenterCell() with the centre row and column rounded up
getCenterCell_roundUp(w) ==
  IF w.grid.cells = 0 \/ ~w.grid.hasContainer THEN <<>>
  ELSE getCellInfoByIndex(w, ((w.grid.gridRows + 1) \div 2) * w.grid.gridCols
                               + ((w.grid.gridCols + 1) \div 2))

\* getCenterCell()
getCenterCell(w) ==
  IF w.grid.cells = 0 \/ ~w.grid.hasContainer THEN <<>>
  ELSE getCellInfoByIndex(w, (w.grid.gridRows \div 2) * w.grid.gridCols + (w.grid.gridCols \div 2))

\* the indices Math.floor(Math.random() * cells.length) can produce
RandomCellChoices(w) == IF w.grid.cells = 0 THEN {0} ELSE 0..(w.grid.cells - 1)

-----------------------------------------------------------------------------
(* GridAnimator: scheduler *)

clearGlyphChangeTimers_keepInterval(w) ==
  [w EXCEPT !.anim.glyphChangeBatches = <<>>,
            !.anim.glyphChangeTickIndex = 0,
            !.anim.glyphChangeTotalTicks = 0,
            !.obs.run = IF @ = "running" THEN "cut" ELSE @,
            !.obs.drawn = IF w.obs.run = "running" THEN <<>> ELSE @,
            !.obs.delivered = IF w.obs.run = "running" THEN <<>> ELSE @,
            !.obs.stale = FALSE]

\* clearGlyphChangeTimers(); observation: a run that was under way is cut
clearGlyphChangeTimers(w) ==
  [w EXCEPT !.anim.glyphChangeTimerId = NoTimer,
            !.anim.glyphChangeBatches = <<>>,
            !.anim.glyphChangeTickIndex = 0,
            !.anim.glyphChangeTotalTicks = 0,
            !.obs.run = IF @ = "running" THEN "cut" ELSE @,
            !.obs.drawn = IF w.obs.run = "running" THEN <<>> ELSE @,
            !.obs.delivered = IF w.obs.run = "running" THEN <<>> ELSE @,
            !.obs.stale = FALSE]

clearStateTransitionTimers(w) == [w EXCEPT !.anim.stateTransitionTimers = <<>>]

\* uniqueCellIndices handled in one tick
TickUpdateCount_noCap(unique) == Len(unique)

\* Math.min(this.maxCellUpdatesPerTick, uniqueCellIndices.length)
TickUpdateCount(unique) == Min(maxCellUpdatesPerTick, Len(unique))

RECURSIVE CountDelivered(_, _, _)
\* delivered, with one more updateCell for every index of upd that has a cell
CountDelivered(delivered, upd, cells) ==
  IF upd = <<>> THEN delivered
  ELSE LET c == Head(upd)
           d == IF c < cells /\ c < Len(delivered)
                THEN [delivered EXCEPT ![c + 1] = @ + 1] ELSE delivered
       IN CountDelivered(d, Tail(upd), cells)

\* the whole de-duplicated bucket carried over
Overflow_all(unique, count) == unique

\* uniqueCellIndices.slice(tickUpdateCount)
Overflow(unique, count) == SubSeq(unique, count + 1, Len(unique))

\* processGlyphChangeBatchTick(); observation: when a run ends, the cells
\* refreshed less often, and those refreshed more often, than drawn
processGlyphChangeBatchTick(w) ==
  IF w.anim.glyphChangeTickIndex >= w.anim.glyphChangeTotalTicks
  THEN [clearGlyphChangeTimers(w) EXCEPT !.obs.lastTick = {}, !.obs.lastUnique = 0]
  ELSE
    LET a == w.anim
        idx == a.glyphChangeTickIndex
        batch == IF idx + 1 <= Len(a.glyphChangeBatches) THEN a.glyphChangeBatches[idx + 1] ELSE <<>>
        active == ~a.isPaused /\ Len(batch) > 0
        uniqueCellIndices == ArrayFromSet(batch)
        tickUpdateCount == TickUpdateCount(uniqueCellIndices)
        updated == SubSeq(uniqueCellIndices, 1, tickUpdateCount)
        refreshed == {c \in SeqToSet(updated) : c < w.grid.cells}
        overflow == Overflow(uniqueCellIndices, tickUpdateCount)
        nextTickIndex == idx + 1
        carried == IF active /\ Len(uniqueCellIndices) > tickUpdateCount
                      /\ nextTickIndex < a.glyphChangeTotalTicks
                   THEN [a.glyphChangeBatches EXCEPT ![nextTickIndex + 1] = @ \o overflow]
                   ELSE a.glyphChangeBatches
        w0 == IF active THEN UpdateCells(w, refreshed, ZeroDraw) ELSE w
        w1 == [w0 EXCEPT !.anim.glyphChangeBatches = carried,
                        !.anim.glyphChangeTickIndex = idx + 1,
                        !.obs.lastTick = IF active THEN refreshed ELSE {},
                        !.obs.lastUnique = IF active THEN Len(uniqueCellIndices) ELSE 0,
                        !.obs.delivered = IF active THEN CountDelivered(@, updated, w.grid.cells) ELSE @]
    IN IF w1.anim.glyphChangeTickIndex >= w1.anim.glyphChangeTotalTicks
       THEN [clearGlyphChangeTimers(w1) EXCEPT
               !.obs.run = IF @ = "cut" THEN "done" ELSE @,
               !.obs.overdelivered =
                 {c \in 0..(Len(w1.obs.drawn) - 1) :
                    w1.obs.delivered[c + 1] > w1.obs.drawn[c + 1]},
               !.obs.undelivered =
                 {c \in 0..(Len(w1.obs.drawn) - 1) :
                    w1.obs.delivered[c + 1] # w1.obs.drawn[c + 1]}]
       ELSE w1

\* the buckets counted with Math.floor
TotalTicks_floor(duration) == Max(1, duration \div glyphChangeBatchIntervalMs)

\* Math.max(1, Math.ceil(duration / this.glyphChangeBatchIntervalMs))
TotalTicks(duration) == Max(1, CeilDiv(duration, glyphChangeBatchIntervalMs))

MinChanges(settings) == Max(0, settings.minPerCell)
MaxChanges(settings) == Max(MinChanges(settings), settings.maxPerCell)

\* the ways one cell's changes can fall into the ticks: changes per tick, with
\* a total drawn in minChanges..maxChanges
CellPlans(totalTicks, settings) ==
  {f \in [1..totalTicks -> 0..MaxChanges(settings)] :
     LET n == SumTo([i \in 0..(totalTicks - 1) |-> f[i + 1]], totalTicks)
     IN n >= MinChanges(settings) /\ n <= MaxChanges(settings)}

\* the random draws of one scheduleIndividualCellChanges(duration, settings) call
Plans(w, duration, settings) ==
  IF duration <= 0 \/ getCellCount(w) = 0 THEN {<<>>}
  ELSE [1..getCellCount(w) -> CellPlans(TotalTicks(duration), settings)]

RECURSIVE Bucket(_, _, _)
\* batches[tick]: cells in index order, each as often as the plan puts it there
Bucket(plan, tick, cell) ==
  IF cell > Len(plan) THEN <<>>
  ELSE Repeat(cell - 1, plan[cell][tick]) \o Bucket(plan, tick, cell + 1)

\* scheduleIndividualCellChanges(duration, settings), plan is the random draw;
\* observation: the buckets as built, before the first tick is processed
scheduleIndividualCellChanges(w, duration, settings, plan) ==
  LET w0 == clearGlyphChangeTimers(w)
  IN IF duration <= 0 \/ getCellCount(w0) = 0 THEN w0
     ELSE
       LET totalTicks == TotalTicks(duration)
           batches == [t \in 1..totalTicks |-> Bucket(plan, t, 1)]
           built == [duration |-> duration,
                     minPerCell |-> settings.minPerCell,
                     maxPerCell |-> settings.maxPerCell,
                     buckets |-> Len(batches),
                     drawn |-> [c \in 1..Len(plan) |->
                                  SumTo([i \in 0..(totalTicks - 1) |-> plan[c][i + 1]], totalTicks)],
                     placed |-> [c \in 1..Len(plan) |->
                                   SumTo([t \in 0..(totalTicks - 1) |->
                                            Len(SelectSeq(batches[t + 1], LAMBDA x : x = c - 1))],
                                         totalTicks)]]
           w1 == [w0 EXCEPT !.anim.glyphChangeBatches = batches,
                            !.obs.scheduled = <<built>>,
                            !.anim.glyphChangeTickIndex = 0,
                            !.anim.glyphChangeTotalTicks = totalTicks,
                            !.obs.run = "running",
                            !.obs.drawn = [c \in 1..Len(plan) |->
                                             SumTo([i \in 0..(totalTicks - 1) |-> plan[c][i + 1]], totalTicks)],
                            !.obs.delivered = [c \in 1..Len(plan) |-> 0]]
           w2 == processGlyphChangeBatchTick(w1)
       IN IF w2.anim.glyphChangeTickIndex < w2.anim.glyphChangeTotalTicks
          THEN [w2 EXCEPT !.anim.glyphChangeTimerId = glyphChangeBatchIntervalMs]
          ELSE w2

-----------------------------------------------------------------------------
(* GridAnimator: transform and targets *)

\* pickRandomTarget(), index is the random draw of getRandomCell()
pickRandomTarget(w, index) ==
  LET cellInfo == getRandomCell(w, index)
  IN IF cellInfo = <<>> THEN ZeroTarget
     ELSE [x |-> cellInfo[1].x - w.dom.width \div 2,
           y |-> cellInfo[1].y - w.dom.height \div 2,
           cellWidth |-> cellInfo[1].cellWidth,
           cellHeight |-> cellInfo[1].cellHeight]

calculateCellFitScale_fallbackMin(w, target) ==
  IF target.cellWidth = 0 \/ target.cellHeight = 0 THEN w.anim.zoomScaleMin
  ELSE (w.dom.width * fitFactor) \div target.cellWidth

\* calculateCellFitScale(target): (width / cellWidth) * 0.80, in hundredths
calculateCellFitScale(w, target) ==
  IF target.cellWidth = 0 \/ target.cellHeight = 0 THEN zoomScaleMax
  ELSE (w.dom.width * fitFactor) \div target.cellWidth

\* applyZoomTransform(targetX, targetY, scale)
applyZoomTransform(w, targetX, targetY, scale) ==
  [w EXCEPT !.dom.transform = [tx |-> -(targetX * scale), ty |-> -(targetY * scale), s |-> scale]]

-----------------------------------------------------------------------------
(* GridAnimator: phases *)

Timer(kind, delay, scale) == [kind |-> kind, left |-> delay, scale |-> scale]

PushTimer(w, timer) == [w EXCEPT !.anim.stateTransitionTimers = Append(@, timer)]

\* observation: the start handler of phase has run
Entered(w, phase) ==
  [w EXCEPT !.obs.prevEntered = w.obs.lastEntered, !.obs.lastEntered = phase,
            !.obs.justEntered = phase]

\* startZoomIn() with the phase timer armed for the scheduler's duration
startZoomIn_shortTimer(w, index, plan) ==
  LET target == pickRandomTarget(w, index)
      w1 == [Entered(w, ZOOM_IN) EXCEPT !.anim.nextTarget = <<target>>,
                                        !.dom.transition = "zoomIn"]
      targetScale == calculateCellFitScale(w1, target)
      w2 == applyZoomTransform(w1, target.x, target.y, targetScale)
      w3 == scheduleIndividualCellChanges(w2, timingZoomIn - staticTailMs, zoomSettings, plan)
  IN PushTimer(w3, Timer("zoomIn", timingZoomIn - staticTailMs, targetScale))

\* startZoomIn(); the timer keeps targetScale for its callback
startZoomIn(w, index, plan) ==
  LET target == pickRandomTarget(w, index)
      w1 == [Entered(w, ZOOM_IN) EXCEPT !.anim.nextTarget = <<target>>,
                                        !.dom.transition = "zoomIn"]
      targetScale == calculateCellFitScale(w1, target)
      w2 == applyZoomTransform(w1, target.x, target.y, targetScale)
      w3 == scheduleIndividualCellChanges(w2, timingZoomIn - staticTailMs, zoomSettings, plan)
  IN PushTimer(w3, Timer("zoomIn", timingZoomIn, targetScale))

\* startDwell() that writes the overview transform
startDwell_writesTransform(w) ==
  PushTimer(applyZoomTransform(Entered(w, DWELL), 0, 0, w.anim.zoomScaleMin),
            Timer("dwell", timingDwell, 0))

\* startDwell()
startDwell(w) == PushTimer(Entered(w, DWELL), Timer("dwell", timingDwell, 0))

\* startZoomOut()
startZoomOut(w, plan) ==
  LET w1 == [Entered(w, ZOOM_OUT) EXCEPT !.anim.currentState = ZOOM_OUT,
                                         !.dom.transition = "zoomOut"]
      w2 == applyZoomTransform(w1, 0, 0, w1.anim.zoomScaleMin)
      w3 == scheduleIndividualCellChanges(w2, timingZoomOut - staticTailMs, zoomSettings, plan)
  IN PushTimer(w3, Timer("zoomOut", timingZoomOut, 0))

NextState_skipDwell(state) ==
  CASE state = ZOOM_OUT -> ZOOM_IN
    [] state = ZOOM_IN -> ZOOM_OUT
    [] state = DWELL -> ZOOM_OUT

\* the switch of scheduleNextCycle()
NextState(state) ==
  CASE state = ZOOM_OUT -> ZOOM_IN
    [] state = ZOOM_IN -> DWELL
    [] state = DWELL -> ZOOM_OUT

\* scheduleNextCycle(); index and plan are the draws of the phase it starts
scheduleNextCycle(w, index, plan) ==
  IF w.anim.isPaused THEN w
  ELSE IF ~w.anim.loopEnabled /\ w.anim.currentState = ZOOM_OUT THEN w
  ELSE LET next == NextState(w.anim.currentState)
           w1 == [w EXCEPT !.anim.currentState = next]
       IN CASE next = ZOOM_IN -> startZoomIn(w1, index, plan)
            [] next = DWELL -> startDwell(w1)
            [] next = ZOOM_OUT -> startZoomOut(w1, plan)

\* the draws scheduleNextCycle() makes from w
CycleIndexChoices(w) ==
  IF w.anim.currentState = ZOOM_OUT /\ w.anim.loopEnabled THEN RandomCellChoices(w) ELSE {0}

CyclePlans(w) ==
  CASE w.anim.currentState = ZOOM_OUT ->
         IF w.anim.loopEnabled THEN Plans(w, timingZoomIn - staticTailMs, zoomSettings) ELSE {<<>>}
    [] w.anim.currentState = ZOOM_IN -> {<<>>}
    [] w.anim.currentState = DWELL -> Plans(w, timingZoomOut - staticTailMs, zoomSettings)

-----------------------------------------------------------------------------
(* GridAnimator: controls *)

\* start() that leaves the pending phase-transition timers armed
start_keepStateTimers(w) ==
  LET w1 == clearGlyphChangeTimers(w)
      center == getCenterCell(w1)
      target == IF center # <<>>
                THEN [x |-> center[1].x, y |-> center[1].y,
                      cellWidth |-> center[1].cellWidth, cellHeight |-> center[1].cellHeight]
                ELSE pickRandomTarget(w1, 0)
      initialScale == calculateCellFitScale(w1, target)
      w2 == [w1 EXCEPT !.anim.isPaused = FALSE,
                       !.anim.nextTarget = <<target>>,
                       !.anim.currentTarget = target,
                       !.anim.currentScale = initialScale]
      w3 == applyZoomTransform(w2, target.x, target.y, initialScale)
      w4 == [w3 EXCEPT !.dom.transition = "zoomOut", !.anim.currentState = ZOOM_OUT]
  IN PushTimer(w4, Timer("initial", bootstrapHoldMs, 0))

start_keepGlyphTimers(w) ==
  LET w1 == clearStateTransitionTimers(w)
      center == getCenterCell(w1)
      target == IF center # <<>>
                THEN [x |-> center[1].x, y |-> center[1].y,
                      cellWidth |-> center[1].cellWidth, cellHeight |-> center[1].cellHeight]
                ELSE pickRandomTarget(w1, 0)
      initialScale == calculateCellFitScale(w1, target)
      w2 == [w1 EXCEPT !.anim.isPaused = FALSE,
                       !.anim.nextTarget = <<target>>,
                       !.anim.currentTarget = target,
                       !.anim.currentScale = initialScale]
      w3 == applyZoomTransform(w2, target.x, target.y, initialScale)
      w4 == [w3 EXCEPT !.dom.transition = "zoomOut", !.anim.currentState = ZOOM_OUT]
  IN PushTimer(w4, Timer("initial", bootstrapHoldMs, 0))

\* start()
start(w) ==
  LET w1 == clearStateTransitionTimers(clearGlyphChangeTimers(w))
      center == getCenterCell(w1)
      target == IF center # <<>>
                THEN [x |-> center[1].x, y |-> center[1].y,
                      cellWidth |-> center[1].cellWidth, cellHeight |-> center[1].cellHeight]
                ELSE pickRandomTarget(w1, 0)
      initialScale == calculateCellFitScale(w1, target)
      w2 == [w1 EXCEPT !.anim.isPaused = FALSE,
                       !.anim.nextTarget = <<target>>,
                       !.anim.currentTarget = target,
                       !.anim.currentScale = initialScale]
      w3 == applyZoomTransform(w2, target.x, target.y, initialScale)
      w4 == [w3 EXCEPT !.dom.transition = "zoomOut", !.anim.currentState = ZOOM_OUT]
  IN PushTimer(w4, Timer("initial", bootstrapHoldMs, 0))

\* reset()
reset_keepGlyphTimers(w) ==
  LET w1 == clearStateTransitionTimers(w)
  IN [w1 EXCEPT !.anim.currentState = DWELL,
                !.anim.isPaused = FALSE,
                !.anim.currentScale = w1.anim.zoomScaleMin,
                !.anim.currentTarget = ZeroTarget,
                !.anim.nextTarget = <<>>,
                !.dom.transition = "none",
                !.dom.transform = [tx |-> 0, ty |-> 0, s |-> w1.anim.zoomScaleMin],
                !.dom.restoreTimers = @ + 1]

reset(w) ==
  LET w1 == clearStateTransitionTimers(clearGlyphChangeTimers(w))
  IN [w1 EXCEPT !.anim.currentState = DWELL,
                !.anim.isPaused = FALSE,
                !.anim.currentScale = w1.anim.zoomScaleMin,
                !.anim.currentTarget = ZeroTarget,
                !.anim.nextTarget = <<>>,
                !.dom.transition = "none",
                !.dom.transform = [tx |-> 0, ty |-> 0, s |-> w1.anim.zoomScaleMin],
                !.dom.restoreTimers = @ + 1]

pause_stateTimersOnly(w) ==
  clearStateTransitionTimers([w EXCEPT !.anim.isPaused = TRUE])

\* pause() that leaves the phase-transition timers armed
pause_glyphTimersOnly(w) ==
  clearGlyphChangeTimers([w EXCEPT !.anim.isPaused = TRUE])

\* pause() that also puts the overview transform back
pause_resetsTransform(w) ==
  applyZoomTransform(
    clearStateTransitionTimers(clearGlyphChangeTimers([w EXCEPT !.anim.isPaused = TRUE])),
    0, 0, w.anim.zoomScaleMin)

\* pause()
pause(w) ==
  clearStateTransitionTimers(clearGlyphChangeTimers([w EXCEPT !.anim.isPaused = TRUE]))

resume_unpauseOnly(w, index, plan) ==
  IF ~w.anim.isPaused THEN w ELSE [w EXCEPT !.anim.isPaused = FALSE]

\* resume()
resume(w, index, plan) ==
  IF ~w.anim.isPaused THEN w
  ELSE scheduleNextCycle([w EXCEPT !.anim.isPaused = FALSE], index, plan)

\* destroy()
destroy(w) == clearGlyphChangeTimers(pause(w))

\* the callbacks, the ZoomOut one arming the dwellOut timer in any mode
timerCallback_alwaysLoops(w, timer, index, plan) ==
  IF w.anim.isPaused THEN w
  ELSE CASE timer.kind = "initial" -> startZoomOut(w, plan)
         [] timer.kind = "zoomIn" ->
              scheduleNextCycle([w EXCEPT !.anim.currentScale = timer.scale,
                                          !.anim.currentTarget = w.anim.nextTarget[1]],
                                index, plan)
         [] timer.kind = "dwell" -> scheduleNextCycle(w, index, plan)
         [] timer.kind = "zoomOut" ->
              LET w1 == [w EXCEPT !.anim.currentScale = w.anim.zoomScaleMin,
                                  !.anim.currentTarget = ZeroTarget]
                  w2 == IF w1.anim.dwellOutEnabled
                        THEN scheduleIndividualCellChanges(w1, timingDwellOut, dwellOutSettings, plan)
                        ELSE w1
              IN PushTimer(w2, Timer("dwellOut", timingDwellOut, 0))
         [] timer.kind = "dwellOut" -> scheduleNextCycle(w, index, plan)

\* the callbacks of the phase-transition timers
timerCallback(w, timer, index, plan) ==
  IF w.anim.isPaused THEN w
  ELSE CASE timer.kind = "initial" -> startZoomOut(w, plan)
         [] timer.kind = "zoomIn" ->
              scheduleNextCycle([w EXCEPT !.anim.currentScale = timer.scale,
                                          !.anim.currentTarget = w.anim.nextTarget[1]],
                                index, plan)
         [] timer.kind = "dwell" -> scheduleNextCycle(w, index, plan)
         [] timer.kind = "zoomOut" ->
              LET w1 == [w EXCEPT !.anim.currentScale = w.anim.zoomScaleMin,
                                  !.anim.currentTarget = ZeroTarget]
              IN IF ~w1.anim.loopEnabled THEN w1
                 ELSE LET w2 == IF w1.anim.dwellOutEnabled
                                THEN scheduleIndividualCellChanges(w1, timingDwellOut, dwellOutSettings, plan)
                                ELSE w1
                      IN PushTimer(w2, Timer("dwellOut", timingDwellOut, 0))
         [] timer.kind = "dwellOut" -> scheduleNextCycle(w, index, plan)

\* the draws a timer's callback makes from w
CallbackIndexChoices(w, timer) ==
  IF timer.kind \in {"zoomIn", "dwell", "dwellOut"} THEN CycleIndexChoices(w) ELSE {0}

CallbackPlans(w, timer) ==
  CASE timer.kind = "initial" -> Plans(w, timingZoomOut - staticTailMs, zoomSettings)
    [] timer.kind = "zoomOut" -> Plans(w, timingDwellOut, dwellOutSettings)
    [] OTHER -> CyclePlans(w)

-----------------------------------------------------------------------------
(* Actions: the animator's interface, the timers, the grid *)
\* the world an operation starts from: the per-step observations are reset,
\* and so is the record of a scheduler run that is over
Begin ==
  [World EXCEPT !.obs.pendingBefore = PendingTimers(World),
                !.obs.justEntered = "none",
                !.obs.lastTick = {},
                !.obs.lastUnique = 0,
                !.obs.run = IF @ = "running" THEN @ ELSE "none",
                !.obs.drawn = IF obs.run = "running" THEN @ ELSE <<>>,
                !.obs.delivered = IF obs.run = "running" THEN @ ELSE <<>>,
                !.obs.undelivered = {},
                !.obs.inverted = <<>>,
                !.obs.populates = <<>>,
                !.obs.dropped = <<>>,
                !.obs.scheduled = <<>>,
                !.obs.normalized = <<>>,
                !.obs.sampled = <<>>,
                !.obs.overdelivered = {}]

\* observation: name of the operation that made the step
Op(name, w) == [w EXCEPT !.obs.lastOp = name]

Start ==
  Commit(Op("start", [start(Begin) EXCEPT !.obs.sinceStart = "clean",
                                          !.obs.prevEntered = "none",
                                          !.obs.lastEntered = "none"]))

Pause ==
  Commit(Op("pause", [pause(Begin) EXCEPT !.obs.sinceStart = IF @ = "clean" THEN "paused" ELSE @]))

Resume ==
  \E index \in (IF anim.isPaused THEN CycleIndexChoices(Begin) ELSE {0}),
     plan \in (IF anim.isPaused THEN CyclePlans(Begin) ELSE {<<>>}) :
    Commit(Op("resume", resume(Begin, index, plan)))

Reset ==
  /\ dom.restoreTimers < MaxRestoreTimers
  /\ Commit(Op("reset", [reset(Begin) EXCEPT !.obs.sinceStart = "reset"]))

Destroy ==
  Commit(Op("destroy", [destroy(Begin) EXCEPT !.obs.sinceStart = IF @ = "clean" THEN "paused" ELSE @]))

\* reset()'s setTimeout(..., 0): transitions are re-enabled
RestoreTransition ==
  /\ dom.restoreTimers > 0
  /\ Commit(Op("restore", [Begin EXCEPT !.dom.transition = "", !.dom.restoreTimers = @ - 1]))

RemoveAt(s, i) == SubSeq(s, 1, i - 1) \o SubSeq(s, i + 1, Len(s))

\* a phase-transition timer runs its callback
FireStateTimer ==
  \E i \in 1..Len(anim.stateTransitionTimers) :
    LET timer == anim.stateTransitionTimers[i]
        w == [Begin EXCEPT !.anim.stateTransitionTimers = RemoveAt(@, i)]
    IN /\ timer.left = 0
       /\ \E index \in CallbackIndexChoices(w, timer), plan \in CallbackPlans(w, timer) :
            Commit(Op("timer", timerCallback(w, timer, index, plan)))

\* the setInterval callback of the scheduler; the interval stays armed unless
\* the callback cleared it
GlyphTick ==
  /\ anim.glyphChangeTimerId = 0
  /\ LET w == processGlyphChangeBatchTick(Begin)
     IN Commit(Op("tick", [w EXCEPT !.anim.glyphChangeTimerId =
                                      IF @ = NoTimer THEN NoTimer ELSE glyphChangeBatchIntervalMs]))

\* remaining times of all pending timers
PendingLefts ==
  {anim.stateTransitionTimers[i].left : i \in 1..Len(anim.stateTransitionTimers)}
    \cup (IF anim.glyphChangeTimerId = NoTimer THEN {} ELSE {anim.glyphChangeTimerId})
    \cup app.resizeTimeouts

\* time passes until the next deadline; zero-delay timeouts and the render
\* passes asked for come first
Advance ==
  /\ dom.restoreTimers = 0
  /\ app.frames = <<>>
  /\ PendingLefts # {}
  /\ \A l \in PendingLefts : l > 0
  /\ LET d == CHOOSE l \in PendingLefts : \A m \in PendingLefts : l <= m
     IN Commit(Op("advance",
          [Begin EXCEPT !.anim.stateTransitionTimers =
                           [i \in 1..Len(@) |-> [@[i] EXCEPT !.left = @ - d]],
                        !.anim.glyphChangeTimerId = IF @ = NoTimer THEN NoTimer ELSE @ - d,
                        !.app.resizeTimeouts = {l - d : l \in @}]))

\* populate() on the animator's grid, here a single row of NumCells cells
Populate ==
  Commit(Op("populate", populate(Begin, DefaultGlyphs, <<>>, NoFont, anim.zoomScaleMin,
                                 [cols |-> NumCells, rows |-> 1], ZeroDraw)))

Next ==
  \/ Start
  \/ Pause
  \/ Resume
  \/ Reset
  \/ Destroy
  \/ RestoreTransition
  \/ FireStateTimer
  \/ GlyphTick
  \/ Advance
  \/ Populate

Spec == Init /\ [][Next]_vars

\* the animator with loopEnabled as constructed or set to false by its owner
InitLoop ==
  /\ \E loopEnabled \in BOOLEAN : anim = [GridAnimatorInit EXCEPT !.loopEnabled = loopEnabled]
  /\ grid = GlyphGridInit
  /\ dom = DomInit
  /\ obs = ObsInit
  /\ app = TurboTilerInit
  /\ shell = AppShellInit
  /\ word = WordAnimatorInit

SpecLoop == InitLoop /\ [][Next]_vars

-----------------------------------------------------------------------------
(* The grid layout on its own: populate() for any viewport and zoomOutScale *)

\* 0 is the degenerate viewport: clientWidth and window.innerWidth both 0
ViewportSizes == {20 * k : k \in 0..MaxViewportUnits}

PopulateGrid ==
  \E vw \in ViewportSizes, vh \in ViewportSizes, z \in 1..MaxZoomOutScale :
    LET w == [Begin EXCEPT !.dom.width = vw, !.dom.height = vh]
    IN Commit(Op("populate", populate(w, DefaultGlyphs, <<>>, NoFont, z, LayoutDims(z), ZeroDraw)))

NextGrid == PopulateGrid

SpecGrid == Init /\ [][NextGrid]_vars

-----------------------------------------------------------------------------
(* The scheduler on its own: scheduleIndividualCellChanges() for any         *)
(* duration and settings on a one-row grid, its ticks, and                   *)
(* clearGlyphChangeTimers()                                                  *)

SchedDurations == {25 * k : k \in 0..SchedMaxDuration}

SchedSettings ==
  [minPerCell : 0..SchedMaxPerCell, maxPerCell : 0..SchedMaxPerCell]

SchedPopulate ==
  \E n \in 1..SchedCells :
    /\ grid.cells # n
    /\ Commit(Op("populate", populate(Begin, DefaultGlyphs, <<>>, NoFont, anim.zoomScaleMin,
                                      [cols |-> n, rows |-> 1], ZeroDraw)))

\* a call first clears the run before it, which is ClearGlyphChangeTimers
\* followed by this action
Schedule ==
  /\ anim.glyphChangeTimerId = NoTimer
  /\ obs.lastOp # "schedule"
  /\ \E duration \in SchedDurations, settings \in SchedSettings :
       \E plan \in Plans(Begin, duration, settings) :
         Commit(Op("schedule", scheduleIndividualCellChanges(Begin, duration, settings, plan)))

ClearGlyphChangeTimers ==
  Commit(Op("clear", clearGlyphChangeTimers(Begin)))

NextSched ==
  \/ SchedPopulate
  \/ Schedule
  \/ GlyphTick
  \/ Advance
  \/ ClearGlyphChangeTimers

SpecSched == Init /\ [][NextSched]_vars

----------------------------------------------------------------------------
\* TurboTiler: font loading, viewport rebuilds and the space key, driving the
\* animator on a single row of NumCells cells.

\* a requestAnimationFrame callback: pass 1 requests pass 2, pass 2 acts;
\* a rebuild carries the viewport size read when it was asked for
FrameCallback(kind, w) == [kind |-> kind, pass |-> 1, width |-> w.dom.width, height |-> w.dom.height]

\* rebuildForViewportChange() up to its requestAnimationFrame
rebuildForViewportChange(w) ==
  IF ~w.app.currentFont THEN w
  ELSE [w EXCEPT !.app.frames = Append(@, FrameCallback("rebuild", w))]

\* populateGrid()
populateGrid(w) ==
  IF ~w.app.currentFont THEN w
  ELSE LET w1 == [w EXCEPT !.anim.zoomScaleMin = zoomScaleMinSynced]
       IN populate(w1, DefaultGlyphs, <<>>, NoFont, w1.anim.zoomScaleMin,
                   [cols |-> NumCells, rows |-> 1], ZeroDraw)

rebuildSettled_noPause(w, cb) ==
  IF w.dom.width # cb.width \/ w.dom.height # cb.height
  THEN rebuildForViewportChange(w)
  ELSE LET w1 == populateGrid([w EXCEPT !.anim.zoomScaleMin = zoomScaleMinSynced])
       IN [w1 EXCEPT !.app.frames = Append(@, FrameCallback("start", w1))]

rebuildSettled_noCompare(w, cb) ==
  LET w1 == populateGrid(reset(pause([w EXCEPT !.anim.zoomScaleMin = zoomScaleMinSynced])))
  IN [w1 EXCEPT !.app.frames = Append(@, FrameCallback("start", w1))]

rebuildSettled_noRetry(w, cb) ==
  IF w.dom.width # cb.width \/ w.dom.height # cb.height
  THEN w
  ELSE LET w1 == populateGrid(reset(pause([w EXCEPT !.anim.zoomScaleMin = zoomScaleMinSynced])))
       IN [w1 EXCEPT !.app.frames = Append(@, FrameCallback("start", w1))]

\* the inner callback of rebuildForViewportChange(): retry while the size
\* moves, else pause, reset, repopulate and ask for the start
rebuildSettled(w, cb) ==
  IF w.dom.width # cb.width \/ w.dom.height # cb.height
  THEN rebuildForViewportChange(w)
  ELSE LET w1 == populateGrid(reset(pause([w EXCEPT !.anim.zoomScaleMin = zoomScaleMinSynced])))
       IN [w1 EXCEPT !.app.frames = Append(@, FrameCallback("start", w1))]

RECURSIVE RunFrame(_, _)
\* the callbacks requested for this frame run in order; what they request
\* goes to the next frame
RunFrame(w, callbacks) ==
  IF callbacks = <<>> THEN w
  ELSE LET cb == Head(callbacks)
           w1 == IF cb.pass = 1 THEN [w EXCEPT !.app.frames = Append(@, [cb EXCEPT !.pass = 2])]
                 ELSE IF cb.kind = "start" THEN start(w)
                 ELSE rebuildSettled(w, cb)
       IN RunFrame(w1, Tail(callbacks))

\* a render pass
Frame ==
  /\ app.frames # <<>>
  /\ \E w \in {RunFrame([Begin EXCEPT !.app.frames = <<>>], app.frames)} :
       /\ w.dom.restoreTimers <= MaxRestoreTimers
       /\ Commit(Op("frame", w))

\* handleFontDrop(): the font loader is handed the file
FontDrop ==
  /\ app.events < MaxUserEvents
  /\ app.loading = 0
  /\ dom.restoreTimers < MaxRestoreTimers
  /\ Commit(Op("fontDrop", [reset(pause(Begin)) EXCEPT !.app.resizeTimeouts = {},
                                                       !.obs.userPaused = FALSE,
                                                       !.app.loading = @ + 1,
                                                       !.app.events = @ + 1]))

\* the font loader reports the font: handleFontLoaded()
FontLoaded ==
  /\ app.loading > 0
  /\ dom.restoreTimers < MaxRestoreTimers
  /\ LET w1 == [Begin EXCEPT !.app.loading = @ - 1, !.app.currentFont = TRUE,
                             !.anim.zoomScaleMin = zoomScaleMinSynced]
         w2 == populate(reset(pause(w1)), DefaultGlyphs, <<>>, NoFont, zoomScaleMinSynced,
                        [cols |-> NumCells, rows |-> 1], ZeroDraw)
     IN Commit(Op("fontLoaded", [w2 EXCEPT !.app.frames = Append(@, FrameCallback("start", w2))]))

\* the font loader reports an error: handleError()
FontError ==
  /\ app.loading > 0
  /\ Commit(Op("fontError", [Begin EXCEPT !.app.loading = @ - 1]))

\* the window's width moves on while a rebuild waits for its render passes
\* (an intermediate size of a fullscreen transition)
ViewportChange ==
  /\ \E i \in 1..Len(app.frames) : app.frames[i].kind = "rebuild"
  /\ \E vw \in ViewportSizes \ {0, dom.width} :
       Commit(Op("viewport", [Begin EXCEPT !.dom.width = vw]))

\* a resize or fullscreen-change event: handleResize() and
\* scheduleViewportRebuilds()
Resize ==
  /\ app.events < MaxUserEvents
  /\ LET w == [Begin EXCEPT !.app.events = @ + 1]
     IN Commit(Op("resize",
          IF ~w.app.currentFont THEN w
          ELSE [w EXCEPT !.app.resizeTimeouts = resizeDelays, !.obs.viewportDirty = TRUE]))

\* a rebuild timeout runs its callback
ResizeTimeout ==
  /\ 0 \in app.resizeTimeouts
  /\ Commit(Op("resizeTimeout",
               rebuildForViewportChange([Begin EXCEPT !.app.resizeTimeouts = @ \ {0}])))

\* file names are sequences of characters; <<>> stands for a drop without a file
FileNames ==
  {<<>>, <<"a", ".", "t", "t", "f">>, <<"a", ".", "O", "T", "F">>, <<"a", ".", "o", "t", "f">>,
   <<"a", ".", "w", "o", "f", "f", "2">>, <<"a", ".", "t", "x", "t">>, <<"t", "t", "f">>,
   <<"a", ".", "t", "t", "f", ".", "z">>}

\* the /i flag: letters compared in lower case
LowerCase(name) ==
  [i \in 1..Len(name) |->
     CASE name[i] = "O" -> "o" [] name[i] = "T" -> "t" [] name[i] = "F" -> "f"
       [] name[i] = "W" -> "w" [] OTHER -> name[i]]

HasSuffix(name, suffix) ==
  /\ Len(name) >= Len(suffix)
  /\ SubSeq(name, Len(name) - Len(suffix) + 1, Len(name)) = suffix

\* validateFontFile(file): file && file.name.match(/\.(ttf|otf)$/i)
validateFontFile(file) ==
  /\ file # <<>>
  /\ \E suffix \in {<<".", "t", "t", "f">>, <<".", "o", "t", "f">>} :
       HasSuffix(LowerCase(file), suffix)

\* a drop event on the page: handleDrop()
HandleDrop ==
  /\ app.events < MaxUserEvents
  /\ \E file \in FileNames :
       LET w == [Begin EXCEPT !.app.events = @ + 1,
                             !.obs.dropped = <<[name |-> file, read |-> validateFontFile(file)]>>]
       IN Commit(Op("drop", IF validateFontFile(file) THEN [w EXCEPT !.app.reading = @ + 1] ELSE w))

\* readFile(): the buffer has arrived and goes to onDrop, handleFontDrop()
ReadFile ==
  /\ app.reading > 0
  /\ app.loading = 0
  /\ dom.restoreTimers < MaxRestoreTimers
  /\ Commit(Op("fontDrop", [reset(pause(Begin)) EXCEPT !.app.resizeTimeouts = {},
                                                       !.obs.userPaused = FALSE,
                                                       !.app.loading = @ + 1,
                                                       !.app.reading = @ - 1]))

NextDrop ==
  \/ HandleDrop
  \/ ReadFile
  \/ FontLoaded
  \/ FontError
  \/ Frame
  \/ RestoreTransition
  \/ FireStateTimer
  \/ GlyphTick
  \/ Advance

SpecDrop == Init /\ [][NextDrop]_vars

NextApp ==
  \/ FontDrop
  \/ FontLoaded
  \/ FontError
  \/ ViewportChange
  \/ Resize
  \/ ResizeTimeout
  \/ Frame
  \/ RestoreTransition
  \/ FireStateTimer
  \/ GlyphTick
  \/ Advance

SpecApp == Init /\ [][NextApp]_vars

\* handleKeyPress(), the space key: resume() if the animator is paused,
\* else pause()
handleKeyPress(w, index, plan) ==
  IF w.anim.isPaused
  THEN [resume(w, index, plan) EXCEPT !.obs.userPaused = FALSE]
  ELSE [pause(w) EXCEPT !.obs.userPaused = TRUE]

\* the space key, pressed while no font is being loaded and no render pass
\* is awaited
KeySpace ==
  /\ app.loading = 0
  /\ app.frames = <<>>
  /\ \E index \in (IF anim.isPaused THEN CycleIndexChoices(Begin) ELSE {0}),
        plan \in (IF anim.isPaused THEN CyclePlans(Begin) ELSE {<<>>}) :
       Commit(Op("key", handleKeyPress(Begin, index, plan)))

\* the space key among font loads, resize events and the rebuilds they
\* schedule, the viewport keeping its size
NextKeys ==
  \/ FontDrop
  \/ FontLoaded
  \/ KeySpace
  \/ Resize
  \/ ResizeTimeout
  \/ Frame
  \/ RestoreTransition
  \/ FireStateTimer
  \/ GlyphTick
  \/ Advance

SpecKeys == Init /\ [][NextKeys]_vars

\* a font is dropped while none is loaded
FirstFontDrop ==
  /\ ~app.currentFont
  /\ FontDrop

\* the window grows on towards its final width while a rebuild waits for its
\* render passes: the size changes a finite number of times
ViewportGrow ==
  /\ \E i \in 1..Len(app.frames) : app.frames[i].kind = "rebuild"
  /\ \E vw \in ViewportSizes :
       /\ vw > dom.width
       /\ Commit(Op("viewport", [Begin EXCEPT !.dom.width = vw]))

\* resize events on a loaded font, the viewport moving while rebuilds wait
NextSettle ==
  \/ FirstFontDrop
  \/ FontLoaded
  \/ FontError
  \/ ViewportGrow
  \/ Resize
  \/ ResizeTimeout
  \/ Frame
  \/ RestoreTransition
  \/ FireStateTimer
  \/ GlyphTick
  \/ Advance

\* the browser runs every render pass asked for and every timer that is due,
\* and time passes; for the render passes and the animator's timers weak
\* fairness is written out: Frame is enabled while a render pass is awaited,
\* FireStateTimer while a phase timer is due and GlyphTick while the
\* scheduler's interval is due, and their steps are those named frame, timer
\* and tick
SpecSettle ==
  /\ Init
  /\ [][NextSettle]_vars
  /\ WF_vars(ResizeTimeout)
  /\ WF_vars(RestoreTransition)
  /\ WF_vars(Advance)
  /\ ([]<>(app.frames = <<>>) \/ []<><<obs'.lastOp = "frame">>_vars)
  /\ ([]<>(\A i \in 1..Len(anim.stateTransitionTimers) :
             anim.stateTransitionTimers[i].left # 0)
        \/ []<><<obs'.lastOp = "timer">>_vars)
  /\ ([]<>(anim.glyphChangeTimerId # 0) \/ []<><<obs'.lastOp = "tick">>_vars)

----------------------------------------------------------------------------
\* Cell content: grids filled from short glyph lists, and cells refreshed.

Glyphs == {"A", "B", "C"}

GlyphLists == UNION {[1..n -> Glyphs] : n \in 0..MaxGlyphs}

\* populate() with a glyph list
PopulateCells ==
  \E glyphList \in GlyphLists :
    \E draw \in GlyphDraws(glyphList) :
      Commit(Op("populate", populate(Begin, glyphList, <<>>, NoFont, anim.zoomScaleMin,
                                     LayoutDims(anim.zoomScaleMin), draw)))

\* updateCell() on one cell
UpdateCell ==
  /\ grid.hasContainer
  /\ \E index \in 0..(Len(grid.content) - 1), draw \in GlyphDraws(grid.glyphList) :
       Commit(Op("updateCell", [updateCell(Begin, index, draw[index + 1])
                                  EXCEPT !.obs.lastTick = {index}]))

\* randomizeAll()
RandomizeAll ==
  /\ grid.hasContainer
  /\ \E draw \in GlyphDraws(grid.glyphList) :
       Commit(Op("randomizeAll", randomizeAll(Begin, draw)))

NextCells ==
  \/ PopulateCells
  \/ UpdateCell
  \/ RandomizeAll

SpecCells == Init /\ [][NextCells]_vars

----------------------------------------------------------------------------
\* Variation axes: grids populated from fonts with and without fvar and avar
\* tables, and segment maps inverted.

\* an axis descriptor as extractAxes() builds it, values in user units
Axis(tag) == [tag |-> tag, minValue |-> 100, defaultValue |-> 400, maxValue |-> 900]

AxisLists == {<<>>, <<Axis("wght")>>, <<Axis("wght"), Axis("wdth")>>, <<Axis("opsz")>>}

Coordinates == (-AvarSteps)..AvarSteps

AvarPair(from, to) == [fromCoordinate |-> from, toCoordinate |-> to]

\* the identity map and a map bent at the default
IdentityMap == <<AvarPair(-AvarSteps, -AvarSteps), AvarPair(0, 0), AvarPair(AvarSteps, AvarSteps)>>
BentMap == <<AvarPair(AvarSteps, AvarSteps), AvarPair(0, AvarSteps), AvarPair(-AvarSteps, -AvarSteps)>>

\* font objects: fvar table absent, empty, or listing one or two axes; avar
\* table absent or holding a segment map for fewer axes than fvar lists
Fonts ==
  {NoFont} \cup
  {[hasFvar |-> TRUE, fvarAxes |-> order, hasAvar |-> hasAvar, axisSegmentMaps |-> maps] :
     order \in {<<>>, <<"wght">>, <<"wdth", "wght">>},
     hasAvar \in BOOLEAN,
     maps \in {<<>>, <<BentMap>>, <<IdentityMap, BentMap>>}}

\* segment maps of up to MaxPairs pairs, in file order: sorted by
\* fromCoordinate, or the reverse of that
SegmentMaps ==
  LET all == UNION {[1..n -> [fromCoordinate : Coordinates, toCoordinate : Coordinates]] :
                      n \in 0..MaxPairs}
      sorted == {m \in all : \A i \in 1..(Len(m) - 1) :
                                m[i].fromCoordinate <= m[i + 1].fromCoordinate}
  IN sorted \cup {[i \in 1..Len(m) |-> m[Len(m) + 1 - i]] : m \in sorted}

\* the targets handed to invertAvar(): one step beyond [-1, 1] on either side
Targets == (-AvarSteps - 1)..(AvarSteps + 1)

\* populate() with a list of axes and a font object, the grid being new or
\* holding one of these fonts
PopulateFont ==
  /\ grid.font \in Fonts
  /\ \E font \in Fonts, axes \in AxisLists :
       Commit(Op("populate", populate(Begin, DefaultGlyphs, axes, font, anim.zoomScaleMin,
                                      LayoutDims(anim.zoomScaleMin), ZeroDraw)))

\* the first populate() of a one-axis font with a segment map
PopulateAvar ==
  /\ ~grid.hasContainer
  /\ \E map \in SegmentMaps :
       Commit(Op("populate",
                 populate(Begin, DefaultGlyphs, <<Axis("wght")>>,
                          [hasFvar |-> TRUE, fvarAxes |-> <<"wght">>, hasAvar |-> TRUE,
                           axisSegmentMaps |-> <<map>>],
                          anim.zoomScaleMin, LayoutDims(anim.zoomScaleMin), ZeroDraw)))

\* invertAvar() on the pairs of one sampler
InvertAvar ==
  \E a \in 1..Len(grid.axisSamplers), target \in Targets :
    LET pairs == grid.axisSamplers[a].avarPairs
    IN Commit(Op("invertAvar",
                 [Begin EXCEPT !.obs.inverted =
                    <<[pairs |-> pairs, target |-> target, value |-> invertAvar(pairs, target)]>>]))

\* normalizedToAxisValue() for every normalized value num / den of a step up
\* to one step beyond [-1, 1], on an axis whose three values come in any
\* order; the function reads nothing of the grid, which is taken as constructed
NormalizedToAxisValue ==
  /\ ~grid.hasContainer
  /\ \E minValue \in {100, 400, 900}, defaultValue \in {100, 400, 900}, maxValue \in {100, 400, 900} :
    LET axis == [tag |-> "wght", minValue |-> minValue, defaultValue |-> defaultValue,
                 maxValue |-> maxValue]
    IN Commit(Op("normalizedToAxisValue",
                 [Begin EXCEPT !.obs.normalized =
                    <<[axis |-> axis,
                       values |-> [n \in [num : Targets, den : 1..2] |->
                                     normalizedToAxisValue(n, axis)]]>>]))

\* segment maps of up to two pairs whose coordinates reach one step beyond
\* [-1, 1] (the table stores them as F2Dot14, which covers [-2, 2))
WideMaps ==
  {m \in UNION {[1..n -> [fromCoordinate : Targets, toCoordinate : Targets]] : n \in 0..2} :
     \A i \in 1..(Len(m) - 1) : m[i].fromCoordinate <= m[i + 1].fromCoordinate}

\* axes with min <= default <= max
OrderedAxes ==
  {axis \in [tag : {"wght"}, minValue : {100, 400, 900}, defaultValue : {100, 400, 900},
             maxValue : {100, 400, 900}] :
     axis.minValue <= axis.defaultValue /\ axis.defaultValue <= axis.maxValue}

\* sampleAxisValue() for every ordered axis and every draw, and invertAvar()
\* for every target, on the grids whose sampler createAxisSamplers() built
\* from a segment map, or on those without a sampler for the axis; the function
\* reads the samplers only, and the grid is otherwise taken as constructed
SampleAxisValue ==
  /\ obs.lastOp = "new"
  /\ \E order \in {<<"wght">>, <<"wdth">>} :
       LET Sampled(map) ==
             LET font == [hasFvar |-> TRUE, fvarAxes |-> order, hasAvar |-> TRUE,
                          axisSegmentMaps |-> <<map>>]
                 w == [Begin EXCEPT !.grid.axisSamplers =
                                       createAxisSamplers(font, <<Axis(order[1])>>)]
                 sampler == w.grid.axisSamplers[1]
             IN [pairs |-> sampler.avarPairs,
                 warped |-> order = <<"wght">> /\ sampler.hasNonLinearAvar /\ Len(map) >= 2,
                 values |-> [d \in OrderedAxes \X (0..(2 * AvarSteps - 1)) |->
                               sampleAxisValue(w, d[1], d[2])],
                 inverted |-> [t \in Targets |-> invertAvar(sampler.avarPairs, t)]]
       IN Commit(Op("sampleAxisValue",
                    [Begin EXCEPT !.obs.sampled = [map \in WideMaps |-> Sampled(map)]]))

NextAxes ==
  \/ PopulateFont
  \/ PopulateAvar
  \/ InvertAvar
  \/ NormalizedToAxisValue
  \/ SampleAxisValue

SpecAxes == Init /\ [][NextAxes]_vars

----------------------------------------------------------------------------
\* AppShell: switchApp() calls from the navigation and the module imports
\* they await, resolving in any order.

\* a navigation link is followed, or switchApp() is called with another key
SwitchApp ==
  /\ shell.calls < MaxSwitchCalls
  /\ \E key \in AppKeys \cup {"unknown"} :
       /\ shell' = [switchApp(shell, key) EXCEPT !.calls = @ + 1, !.lastOp = "switchApp"]
       /\ UNCHANGED <<anim, grid, dom, obs, app, word>>

\* a module import resolves and its switchApp() call runs on
ImportResolved ==
  \E i \in 1..Len(shell.awaiting) :
    /\ shell' = [importResolved(shell, i) EXCEPT !.lastOp = "import"]
    /\ UNCHANGED <<anim, grid, dom, obs, app, word>>

NextShell ==
  \/ SwitchApp
  \/ ImportResolved

SpecShell == Init /\ [][NextShell]_vars

----------------------------------------------------------------------------
\* WordAnimator: start(), stop() and updateAnimationDelay() calls, the word
\* list loads and the timeouts, which run in any order.

\* the world at the start of a WordAnimator step
WordBegin == [word EXCEPT !.updated = FALSE]

WordCommit(name, a) ==
  /\ word' = [a EXCEPT !.lastOp = name]
  /\ UNCHANGED <<anim, grid, dom, obs, app, shell>>

\* start() from handleFontLoaded() or the space key
WordStart ==
  /\ word.calls < MaxWordCalls
  /\ \E interval \in AnimationDelays :
       WordCommit("start", [startWordAnimator(WordBegin, interval) EXCEPT !.calls = @ + 1,
                                                                          !.sinceStop = FALSE])

\* stop() from the space key or a font drop
WordStop ==
  /\ word.calls < MaxWordCalls
  /\ WordCommit("stop", [stop(WordBegin) EXCEPT !.calls = @ + 1, !.sinceStop = TRUE])

\* the delay slider's debounce timeout runs updateAnimationDelay()
WordUpdateDelay ==
  /\ word.calls < MaxWordCalls
  /\ \E newDelay \in AnimationDelays :
       WordCommit("updateAnimationDelay",
                  [updateAnimationDelay(WordBegin, newDelay) EXCEPT
                     !.calls = @ + 1, !.sinceStop = IF word.isAnimating THEN FALSE ELSE @])

\* a loadWordList() call returns; the start() call that awaited it runs on
WordListLoaded ==
  \E i \in 1..Len(word.loads) :
    LET a == [WordBegin EXCEPT !.wordListLoaded = TRUE,
                               !.loads = SubSeq(@, 1, i - 1) \o SubSeq(@, i + 1, Len(@))]
    IN WordCommit("loaded", IF word.loads[i] THEN scheduleNextUpdate(updateWord(a)) ELSE a)

\* a word-update timeout runs: the one whose id is held, or an orphan
WordTimer ==
  \/ /\ word.animationTimer
     /\ WordCommit("timer", scheduleNextUpdate(updateWord([WordBegin EXCEPT !.animationTimer = FALSE])))
  \/ /\ word.orphans > 0
     /\ WordCommit("timer", scheduleNextUpdate(updateWord([WordBegin EXCEPT !.orphans = @ - 1])))

\* the fade timeout runs: the next word is displayed if still animating
WordFade ==
  /\ word.fadeTimer
  /\ WordCommit("fade", [WordBegin EXCEPT !.fadeTimer = FALSE, !.updated = word.isAnimating])

NextWord ==
  \/ WordStart
  \/ WordStop
  \/ WordUpdateDelay
  \/ WordListLoaded
  \/ WordTimer
  \/ WordFade

SpecWord == Init /\ [][NextWord]_vars

-----------------------------------------------------------------------------
(* Properties *)

\* the pairs of consecutively entered phases of the cycle ZoomOut, ZoomIn, Dwell
InCycleOrder ==
  <<obs.prevEntered, obs.lastEntered>> \in
    {<<"none", "none">>, <<"none", ZOOM_OUT>>, <<ZOOM_OUT, ZOOM_IN>>,
     <<ZOOM_IN, DWELL>>, <<DWELL, ZOOM_OUT>>}

\* C1: after start(), with no pause() or reset(), the phases are entered in
\* the cyclic order ZoomOut, ZoomIn, Dwell, ZoomOut, ...: the first phase
\* entered is ZoomOut and each phase entered follows its predecessor in the cycle.
C1_CyclicOrder == obs.sinceStart = "clean" => InCycleOrder

\* a whole cycle has been run without pause: ZoomOut entered again after Dwell
C1_Witness ==
  /\ obs.sinceStart = "clean"
  /\ obs.prevEntered = DWELL
  /\ obs.lastEntered = ZOOM_OUT

\* C2: after start(), pause() and resume() at any moment (bootstrap hold and
\* dwell-at-overview included) leave the sequence of phases entered in the
\* cyclic order ZoomOut, ZoomIn, Dwell, ... with none missing or repeated.
C2_PauseResumeKeepsOrder == obs.sinceStart \in {"clean", "paused"} => InCycleOrder

PhaseDuration(phase) ==
  CASE phase = ZOOM_IN -> timingZoomIn
    [] phase = DWELL -> timingDwell
    [] phase = ZOOM_OUT -> timingZoomOut

\* a step in which resume() is called on a paused animator
ResumeStep == anim.isPaused /\ obs'.lastOp = "resume"

C4_PauseCancelsAll ==
  /\ [](obs.lastOp = "pause" =>
          /\ anim.isPaused
          /\ anim.stateTransitionTimers = <<>>
          /\ anim.glyphChangeTimerId = NoTimer
          /\ anim.glyphChangeBatches = <<>>)
  /\ [][(anim.isPaused /\ obs'.lastOp \in {"timer", "tick"}) =>
          /\ anim'.currentState = anim.currentState
          /\ obs'.justEntered = "none"
          /\ obs'.lastTick = {}]_vars

\* pause() hit a phase timer and a running tick interval
C4_Witness ==
  /\ obs.lastOp = "pause"
  /\ obs.pendingBefore = 2

\* C5: in a scheduler run that processed all its ticks without pause or
\* clear, every cell was refreshed exactly as often as changes were drawn for it.
C5_AllDelivered == obs.run = "done" => obs.undelivered = {}

\* C6: no tick refreshes more than maxCellUpdatesPerTick distinct cells.
C6_TickCap == Cardinality(obs.lastTick) <= maxCellUpdatesPerTick

\* an interval tick whose bucket held more distinct cells than the cap
C6_Witness ==
  /\ obs.lastOp = "tick"
  /\ obs.lastUnique > maxCellUpdatesPerTick
  /\ Cardinality(obs.lastTick) = maxCellUpdatesPerTick

\* C7: after populate(), for any viewport and zoomOutScale > 0, gridCols and
\* gridRows are odd and at least the minimum 13, there are gridCols * gridRows
\* cells, and the container is gridCols * cellWidth by gridRows * cellHeight.
C7_GridShape ==
  obs.lastOp = "populate" =>
    /\ grid.gridCols % 2 = 1
    /\ grid.gridRows % 2 = 1
    /\ grid.gridCols >= minGridCols
    /\ grid.gridRows >= minGridRows
    /\ grid.cells = grid.gridCols * grid.gridRows
    /\ grid.containerWidth = grid.gridCols * grid.cellWidth
    /\ grid.containerHeight = grid.gridRows * grid.cellHeight
    /\ grid.cellWidth * 10 = dom.width * cellWidthFactor
    /\ grid.cellHeight * 10 = dom.height * cellHeightFactor

\* a zoomOutScale that needs more than the minimum and an even number of columns
C7_Witness ==
  /\ obs.lastOp = "populate"
  /\ grid.gridCols > minGridCols
  /\ (RequiredCells(grid.zoomOutScale, cellWidthFactor) + overscanCells) % 2 = 0

\* C8: the scheduler terminates itself: while a run is under way the tick
\* index is below the total and the interval is armed or the first tick is
\* being placed; once the last tick is processed, and after clear() from any
\* state, no interval is pending, no bucket is left, tick index and total are
\* 0, and a tick callback arriving then refreshes no cell.
C8_SchedulerTerminates ==
  /\ obs.run = "running" =>
       /\ anim.glyphChangeTickIndex < anim.glyphChangeTotalTicks
       /\ anim.glyphChangeTimerId # NoTimer
  /\ (obs.run # "running" \/ obs.lastOp = "clear") =>
       /\ anim.glyphChangeTimerId = NoTimer
       /\ anim.glyphChangeBatches = <<>>
       /\ anim.glyphChangeTickIndex = 0
       /\ anim.glyphChangeTotalTicks = 0
       /\ LET w == processGlyphChangeBatchTick(Begin)
          IN /\ w.obs.lastTick = {}
             /\ w.obs.delivered = Begin.obs.delivered
             /\ w.grid = grid

\* a run of at least two ticks ended by its last interval tick, which refreshed a cell
C8_Witness ==
  /\ obs.run = "done"
  /\ obs.lastOp = "tick"
  /\ obs.lastTick # {}

\* C9: right after reset(), from any state, no phase-transition timer and no
\* tick timer is pending, the transition is disabled and the transform is the
\* overview: zero translation, scale zoomScale.min; currentScale is
\* zoomScale.min and currentTarget is (0, 0).
C9_ResetToOverview ==
  obs.lastOp = "reset" =>
    /\ anim.stateTransitionTimers = <<>>
    /\ anim.glyphChangeTimerId = NoTimer
    /\ anim.glyphChangeBatches = <<>>
    /\ dom.transition = "none"
    /\ dom.transform = [tx |-> 0, ty |-> 0, s |-> anim.zoomScaleMin]
    /\ anim.currentScale = anim.zoomScaleMin
    /\ anim.currentTarget = ZeroTarget

\* reset() of a running animator: a phase timer and the tick interval were pending
C9_Witness ==
  /\ obs.lastOp = "reset"
  /\ obs.pendingBefore = 2
  /\ ~anim.isPaused

\* a step in which ZoomIn is entered on a grid without cells
ZeroCellZoomIn == obs'.justEntered = ZOOM_IN /\ grid.cells = 0

\* C10 (as claimed): with zero cells, entering ZoomIn selects the target
\* (0, 0) of size zero and leaves the transform as it was.
C10_ZeroCellsNoOp ==
  [][ZeroCellZoomIn =>
       /\ anim'.nextTarget = <<ZeroTarget>>
       /\ dom'.transform = dom.transform]_vars

\* C10 (amended): with zero cells, entering ZoomIn selects the target (0, 0)
\* of size zero and zooms to the origin at the fallback scale zoomScale.max:
\* the transform becomes zero translation with scale zoomScale.max; no
\* scheduler run is started.
C10_ZeroCellsZoomToMax ==
  [][ZeroCellZoomIn =>
       /\ anim'.nextTarget = <<ZeroTarget>>
       /\ dom'.transform = [tx |-> 0, ty |-> 0, s |-> zoomScaleMax]
       /\ anim'.glyphChangeTimerId = NoTimer]_vars

\* ZoomIn entered from a timer on a grid without cells
C10_Witness ==
  /\ obs.lastOp = "timer"
  /\ obs.justEntered = ZOOM_IN
  /\ grid.cells = 0
  /\ dom.transform.s = zoomScaleMax

\* C11: a tick of a run that was scheduled against a grid populate() has
\* replaced since is a silent no-op: it refreshes no cell of the new grid.
C11_StaleTickNoOp ==
  [][(obs.stale /\ obs'.lastOp = "tick") => obs'.lastTick = {}]_vars

\* C16 (as claimed): populate() takes required = ceil(coverage / (zoomOutScale
\* * factor)), clamps it up to the minimum and adds 1 if the result is even.
C16_RequiredClampedOdd ==
  obs.lastOp = "populate" =>
    LET requiredCols == CeilDiv(minCoverageFactor * 10, grid.zoomOutScale * cellWidthFactor)
        requiredRows == CeilDiv(minCoverageFactor * 10, grid.zoomOutScale * cellHeightFactor)
        clampedCols == IF requiredCols < minGridCols THEN minGridCols ELSE requiredCols
        clampedRows == IF requiredRows < minGridRows THEN minGridRows ELSE requiredRows
    IN /\ grid.gridCols = clampedCols + (IF clampedCols % 2 = 0 THEN 1 ELSE 0)
       /\ grid.gridRows = clampedRows + (IF clampedRows % 2 = 0 THEN 1 ELSE 0)

\* C16 (amended): populate() takes required = ceil(coverage / (zoomOutScale *
\* factor)), adds the overscan of one cell, clamps the sum up to the minimum
\* and adds 1 if the result is even, for columns and for rows.
C16_RequiredOverscanClampedOdd ==
  obs.lastOp = "populate" =>
    LET requiredCols == CeilDiv(minCoverageFactor * 10, grid.zoomOutScale * cellWidthFactor)
        requiredRows == CeilDiv(minCoverageFactor * 10, grid.zoomOutScale * cellHeightFactor)
        clampedCols == IF requiredCols + 1 < minGridCols THEN minGridCols ELSE requiredCols + 1
        clampedRows == IF requiredRows + 1 < minGridRows THEN minGridRows ELSE requiredRows + 1
    IN /\ grid.gridCols = clampedCols + (IF clampedCols % 2 = 0 THEN 1 ELSE 0)
       /\ grid.gridRows = clampedRows + (IF clampedRows % 2 = 0 THEN 1 ELSE 0)

\* the example of the spec: zoomOutScale 0.19 requires 12 columns and gives 13
C16_Witness ==
  /\ obs.lastOp = "populate"
  /\ grid.zoomOutScale = 19
  /\ CeilDiv(minCoverageFactor * 10, grid.zoomOutScale * cellWidthFactor) = 12
  /\ grid.gridCols = 13

\* C17: populate() clamps a viewport width or height of 0 to 1 for the
\* layout, so that cellWidth and cellHeight are positive, and cellCount is
\* cols * rows.
C17_ZeroViewportClamped ==
  obs.lastOp = "populate" =>
    /\ grid.viewportWidth >= 1
    /\ grid.viewportHeight >= 1
    /\ (dom.width > 0 /\ dom.height > 0) => (grid.cellWidth > 0 /\ grid.cellHeight > 0)
    /\ grid.cells = grid.gridCols * grid.gridRows

\* C20: every transform applied for a target cell has the translation
\* (-offsetX * scale, -offsetY * scale), (offsetX, offsetY) being the offset of
\* the target cell's centre from the viewport centre: the centre cell in
\* start(), the drawn cell in ZoomIn, the origin in ZoomOut.
C20_TransformFromOffset ==
  LET t == dom.transform
      FromOffset(cellInfo) ==
        IF cellInfo = <<>> THEN t.tx = 0 /\ t.ty = 0
        ELSE /\ t.tx = -((cellInfo[1].x - dom.width \div 2) * t.s)
             /\ t.ty = -((cellInfo[1].y - dom.height \div 2) * t.s)
  IN /\ obs.lastOp = "start" => FromOffset(getCenterCell(World))
     /\ obs.justEntered = ZOOM_IN =>
          \E index \in RandomCellChoices(World) : FromOffset(getRandomCell(World, index))
     /\ obs.justEntered = ZOOM_OUT => (t.tx = 0 /\ t.ty = 0)

\* C18: with an empty glyph list every cell shows the placeholder "?", and the
\* populated grid still has gridCols * gridRows cells, at least one.
C18_EmptyListPlaceholder ==
  (grid.hasContainer /\ grid.glyphList = <<>>) =>
    /\ grid.cells = grid.gridCols * grid.gridRows
    /\ grid.cells >= 1
    /\ Len(grid.content) = Min(grid.cells, TrackedCells)
    /\ \A c \in 1..Len(grid.content) : grid.content[c] = placeholderGlyph

C18_Witness ==
  /\ obs.lastOp = "updateCell"
  /\ grid.glyphList = <<>>
  /\ Len(grid.content) >= 1
  /\ \A c \in 1..Len(grid.content) : grid.content[c] = "?"

\* C15: for a pair list sorted by fromCoordinate with at least two pairs,
\* invertAvar at the toCoordinate of any pair gives that pair's fromCoordinate.
C15_KnotInverse ==
  \A r \in {obs.inverted[i] : i \in 1..Len(obs.inverted)} :
    Len(r.pairs) >= 2 =>
      \A i \in 1..Len(r.pairs) :
        r.pairs[i].toCoordinate = r.target =>
          r.value.num = r.pairs[i].fromCoordinate * r.value.den

StrictlyIncreasingTo(pairs) ==
  \A i \in 1..(Len(pairs) - 1) : pairs[i].toCoordinate < pairs[i + 1].toCoordinate

\* C15 amended: the same, for pair lists whose toCoordinate strictly increases.
C15_KnotInverseStrict ==
  \A r \in {obs.inverted[i] : i \in 1..Len(obs.inverted)} :
    (Len(r.pairs) >= 2 /\ StrictlyIncreasingTo(r.pairs)) =>
      \A i \in 1..Len(r.pairs) :
        r.pairs[i].toCoordinate = r.target =>
          r.value.num = r.pairs[i].fromCoordinate * r.value.den

\* a bent increasing map, inverted at its upper knot
C15_Witness ==
  /\ obs.lastOp = "invertAvar"
  /\ Len(obs.inverted) = 1
  /\ LET r == obs.inverted[1]
     IN /\ Len(r.pairs) >= 2
        /\ StrictlyIncreasingTo(r.pairs)
        /\ r.pairs[2].toCoordinate # r.pairs[2].fromCoordinate
        /\ r.target = r.pairs[2].toCoordinate
        /\ r.value.num = r.pairs[2].fromCoordinate * r.value.den

\* C19: after populate() with a list of axes the sampler list has the length
\* of the axis list and every axis tag has exactly one sampler.
C19_OneSamplerPerAxis ==
  (obs.lastOp = "populate" /\ grid.axes # <<>>) =>
    /\ Len(grid.axisSamplers) = Len(grid.axes)
    /\ \A a \in 1..Len(grid.axes) :
         Cardinality({k \in 1..Len(grid.axisSamplers) :
                        grid.axisSamplers[k].tag = grid.axes[a].tag}) = 1

\* C12: whenever TurboTiler populates the grid, on a font load or a viewport
\* rebuild, the animator has no phase-transition timer and no tick timer
\* pending, and no scheduler run outlives the grid it was scheduled against.
C12_PopulateAfterPauseReset ==
  /\ \A i \in 1..Len(obs.populates) : obs.populates[i] = 0
  /\ ~obs.stale

\* a viewport rebuild that found the animation running
C12_Witness ==
  /\ obs.lastOp = "frame"
  /\ Len(obs.populates) = 1
  /\ obs.pendingBefore > 0
  /\ PendingTimers(World) = 0

\* C13: from the resize event to the repopulation of the grid no phase is
\* entered, no cell is refreshed and the transform is the neutral overview.
C13_PausedUntilRebuilt ==
  [][(obs.viewportDirty /\ obs'.viewportDirty) =>
       /\ obs'.justEntered = "none"
       /\ obs'.lastTick = {}
       /\ dom'.transform = [tx |-> 0, ty |-> 0, s |-> anim'.zoomScaleMin]]_vars

\* C14: in a render pass, the grid is repopulated once for every settled
\* rebuild whose two size reads agree, and every other one is asked for again.
C14_RebuildOnlyWhenSettled ==
  [][obs'.lastOp = "frame" =>
       LET settled == {i \in 1..Len(app.frames) :
                         app.frames[i].kind = "rebuild" /\ app.frames[i].pass = 2}
           equal == {i \in settled : /\ app.frames[i].width = dom.width
                                     /\ app.frames[i].height = dom.height}
       IN /\ Len(obs'.populates) = Cardinality(equal)
          /\ Cardinality({j \in 1..Len(app'.frames) :
                             app'.frames[j].kind = "rebuild" /\ app'.frames[j].pass = 1})
               = Cardinality(settled \ equal)]_vars

\* a render pass that found the size moved: nothing repopulated, the rebuild
\* asked for again with the size read now
C14_Witness ==
  /\ obs.lastOp = "frame"
  /\ obs.populates = <<>>
  /\ \E j \in 1..Len(app.frames) :
       /\ app.frames[j].kind = "rebuild"
       /\ app.frames[j].pass = 1
       /\ app.frames[j].width = dom.width
       /\ grid.viewportWidth # dom.width

\* C21: start() leaves the view at the fit scale of the centre cell with the
\* bootstrap timer of 500 ms as the only timer; from then on, without pause
\* or reset, no cell is refreshed and no phase but ZoomOut is entered until
\* the first phase has been entered.
C21_BootstrapToZoomOut ==
  [][/\ obs'.lastOp = "start" =>
          LET center == getCenterCell(World)
              fit == IF center = <<>> \/ center[1].cellWidth = 0 \/ center[1].cellHeight = 0
                     THEN zoomScaleMax
                     ELSE (dom.width * 80) \div center[1].cellWidth
          IN /\ dom'.transform.s = fit
             /\ anim'.currentScale = fit
             /\ anim'.glyphChangeTimerId = NoTimer
             /\ Len(anim'.stateTransitionTimers) = 1
             /\ anim'.stateTransitionTimers[1].left = 500
     /\ (obs.sinceStart = "clean" /\ obs.lastEntered = "none" /\ obs'.sinceStart = "clean") =>
          /\ obs'.justEntered \in {"none", ZOOM_OUT}
          /\ obs'.justEntered = "none" => obs'.lastTick = {}]_vars

\* the bootstrap timer has fired: ZoomOut is the first phase entered
C21_Witness ==
  /\ obs.lastOp = "timer"
  /\ obs.sinceStart = "clean"
  /\ obs.prevEntered = "none"
  /\ obs.justEntered = ZOOM_OUT
  /\ grid.cells > 0

\* C22: a dropped file goes on to be read and handed to onDrop exactly when
\* its name ends, in any letter case, with .otf, .ttf or .woff2.
C22_AcceptsFontFiles ==
  \A d \in {obs.dropped[i] : i \in 1..Len(obs.dropped)} :
    d.read <=> \E suffix \in {<<".", "t", "t", "f">>, <<".", "o", "t", "f">>,
                               <<".", "w", "o", "f", "f", "2">>} :
                 HasSuffix(LowerCase(d.name), suffix)


C24_OverflowCarried ==
  [][(/\ obs'.lastOp = "tick"
      /\ ~anim.isPaused
      /\ anim.glyphChangeTickIndex < Len(anim.glyphChangeBatches)) =>
       LET batch == anim.glyphChangeBatches[anim.glyphChangeTickIndex + 1]
           excess == {c \in SeqToSet(batch) : c < grid.cells} \ obs'.lastTick
       IN Cardinality(SeqToSet(batch)) > maxCellUpdatesPerTick =>
            \A c \in excess :
              /\ anim'.glyphChangeTickIndex < Len(anim'.glyphChangeBatches)
              /\ c \in SeqToSet(anim'.glyphChangeBatches[anim'.glyphChangeTickIndex + 1])]_vars


\* C25: a zoom phase starts the scheduler at entry for the phase duration
\* less 500 ms; all its ticks, carried overflow included, are processed
\* strictly before the phase's transition timer fires, and no cell is
\* refreshed between the last tick and the transition.
C25_SettledBeforeTransition ==
  [][LET zoomTimers(a) == {i \in 1..Len(a.stateTransitionTimers) :
                             a.stateTransitionTimers[i].kind \in {"zoomIn", "zoomOut"}}
     IN /\ (obs'.justEntered \in {ZOOM_IN, ZOOM_OUT} /\ grid'.cells > 0) =>
             /\ Len(obs'.scheduled) = 1
             /\ zoomTimers(anim') = {Len(anim'.stateTransitionTimers)}
             /\ \A i \in zoomTimers(anim') :
                  obs'.scheduled[1].duration = anim'.stateTransitionTimers[i].left - 500
        /\ \A i \in zoomTimers(anim) :
             anim.stateTransitionTimers[i].left = 0 =>
               /\ anim.glyphChangeTimerId = NoTimer
               /\ anim.glyphChangeBatches = <<>>
               /\ obs.run # "running"
        /\ (/\ zoomTimers(anim) # {}
            /\ anim.glyphChangeTimerId = NoTimer
            /\ obs'.justEntered = "none"
            /\ obs'.lastOp # "timer") => obs'.lastTick = {}]_vars

\* the transition timer of a ZoomIn phase is due on a grid with cells, the
\* scheduler run of the phase being over
C25_Witness ==
  /\ obs.lastOp = "advance"
  /\ grid.cells > 0
  /\ anim.currentState = ZOOM_IN
  /\ anim.glyphChangeTimerId = NoTimer
  /\ \E i \in 1..Len(anim.stateTransitionTimers) :
       /\ anim.stateTransitionTimers[i].kind = "zoomIn"
       /\ anim.stateTransitionTimers[i].left = 0


\* C26: from entering Dwell until leaving it no cell is refreshed and the
\* transform is not written: no scheduler tick is pending or fires in Dwell.
C26_DwellHolds ==
  [][LET dwelling(a) == \E i \in 1..Len(a.stateTransitionTimers) :
                          a.stateTransitionTimers[i].kind = "dwell"
     IN /\ dwelling(anim') =>
             /\ obs'.lastTick = {}
             /\ anim'.glyphChangeTimerId = NoTimer
             /\ anim'.glyphChangeBatches = <<>>
        /\ (dwelling(anim') /\ (dwelling(anim) \/ obs'.justEntered = DWELL)) =>
             dom'.transform = dom.transform]_vars

\* the whole hold has passed on a grid with cells: the Dwell timer is due
C26_Witness ==
  /\ obs.lastOp = "advance"
  /\ grid.cells > 0
  /\ obs.lastEntered = DWELL
  /\ obs.prevEntered = ZOOM_IN
  /\ \E i \in 1..Len(anim.stateTransitionTimers) :
       /\ anim.stateTransitionTimers[i].kind = "dwell"
       /\ anim.stateTransitionTimers[i].left = 0


\* C27: when the transition timer of a ZoomOut phase fires, with looping
\* enabled the next ZoomIn is entered only after the dwellOut delay has
\* elapsed, never directly; with looping disabled no further phase is ever
\* entered and no phase-transition timer remains pending.
C27_AfterZoomOut ==
  [][LET due(kind) == \E i \in 1..Len(anim.stateTransitionTimers) :
                        /\ anim.stateTransitionTimers[i].kind = kind
                        /\ anim.stateTransitionTimers[i].left = 0
     IN /\ (obs'.lastOp = "timer" /\ due("zoomOut")) =>
             /\ obs'.justEntered = "none"
             /\ IF anim.loopEnabled
                THEN /\ Len(anim'.stateTransitionTimers) = 1
                     /\ anim'.stateTransitionTimers[1].kind = "dwellOut"
                     /\ anim'.stateTransitionTimers[1].left = timingDwellOut
                ELSE /\ anim'.stateTransitionTimers = <<>>
                     /\ anim'.glyphChangeTimerId = NoTimer
        /\ (obs'.lastOp = "timer" /\ obs.lastEntered = ZOOM_OUT /\ obs'.justEntered = ZOOM_IN) =>
             /\ anim.loopEnabled
             /\ due("dwellOut")
        /\ (/\ ~anim.loopEnabled
            /\ anim.currentState = ZOOM_OUT
            /\ anim.stateTransitionTimers = <<>>
            /\ obs'.lastOp # "start") =>
             /\ obs'.justEntered = "none"
             /\ anim'.stateTransitionTimers = <<>>]_vars

\* looping disabled: the ZoomOut timer has fired on a grid with cells and the
\* machine rests at the overview
C27_Witness ==
  /\ ~anim.loopEnabled
  /\ obs.lastOp = "timer"
  /\ obs.lastEntered = ZOOM_OUT
  /\ obs.justEntered = "none"
  /\ anim.stateTransitionTimers = <<>>
  /\ anim.currentScale = anim.zoomScaleMin
  /\ dom.transform.s = anim.zoomScaleMin
  /\ grid.cells > 0


\* C28: invertAvar edge cases: a target in a bracketing interval whose two
\* pairs have equal toCoordinate gives the lower pair's fromCoordinate; a
\* target outside the range of all toCoordinates gives the fromCoordinate of
\* the end pair (first or last) with the nearer toCoordinate.
C28_EdgeCases ==
  \A r \in {obs.inverted[i] : i \in 1..Len(obs.inverted)} :
    Len(r.pairs) >= 2 =>
      LET first == r.pairs[1]
          last == r.pairs[Len(r.pairs)]
          is(from) == r.value.num = from * r.value.den
          outside == \/ \A i \in 1..Len(r.pairs) : r.target < r.pairs[i].toCoordinate
                     \/ \A i \in 1..Len(r.pairs) : r.target > r.pairs[i].toCoordinate
          toFirst == Abs(r.target - first.toCoordinate)
          toLast == Abs(r.target - last.toCoordinate)
      IN /\ \A i \in 2..Len(r.pairs) :
              (r.pairs[i - 1].toCoordinate = r.target /\ r.pairs[i].toCoordinate = r.target) =>
                is(r.pairs[i - 1].fromCoordinate)
         /\ outside => /\ toFirst < toLast => is(first.fromCoordinate)
                       /\ toLast < toFirst => is(last.fromCoordinate)
                       /\ toFirst = toLast => is(first.fromCoordinate) \/ is(last.fromCoordinate)

\* C28 amended: with the target clamped to [-1, 1], a flat first bracketing
\* interval gives its lower pair's fromCoordinate, and a target that no
\* interval brackets gives the fromCoordinate of the end pair whose
\* toCoordinate is nearer to it, the first pair on a tie.
C28_EdgeCasesClamped ==
  \A r \in {obs.inverted[i] : i \in 1..Len(obs.inverted)} :
    Len(r.pairs) >= 2 =>
      LET first == r.pairs[1]
          last == r.pairs[Len(r.pairs)]
          is(from) == r.value.num = from * r.value.den
          target == IF r.target < -AvarSteps THEN -AvarSteps
                    ELSE IF r.target > AvarSteps THEN AvarSteps ELSE r.target
          brackets(i) ==
            \/ r.pairs[i - 1].toCoordinate <= target /\ target <= r.pairs[i].toCoordinate
            \/ r.pairs[i].toCoordinate <= target /\ target <= r.pairs[i - 1].toCoordinate
          toFirst == IF target < first.toCoordinate THEN first.toCoordinate - target
                     ELSE target - first.toCoordinate
          toLast == IF target < last.toCoordinate THEN last.toCoordinate - target
                    ELSE target - last.toCoordinate
      IN /\ \A i \in 2..Len(r.pairs) :
              (/\ brackets(i)
               /\ \A j \in 2..(i - 1) : ~brackets(j)
               /\ r.pairs[i - 1].toCoordinate = r.pairs[i].toCoordinate) =>
                is(r.pairs[i - 1].fromCoordinate)
         /\ (\A i \in 2..Len(r.pairs) : ~brackets(i)) =>
              IF toFirst <= toLast THEN is(first.fromCoordinate) ELSE is(last.fromCoordinate)

\* a target within [-1, 1] below every toCoordinate of a map whose end pairs
\* differ in fromCoordinate: the first pair's fromCoordinate is returned
C28_Witness ==
  /\ obs.lastOp = "invertAvar"
  /\ Len(obs.inverted) = 1
  /\ LET r == obs.inverted[1]
     IN /\ Len(r.pairs) >= 2
        /\ r.target \in Coordinates
        /\ \A i \in 1..Len(r.pairs) : r.target < r.pairs[i].toCoordinate
        /\ r.pairs[1].fromCoordinate # r.pairs[Len(r.pairs)].fromCoordinate
        /\ r.pairs[1].toCoordinate < r.pairs[Len(r.pairs)].toCoordinate
        /\ r.value.num = r.pairs[1].fromCoordinate * r.value.den


\* C29: normalizedToAxisValue clamps n to [-1, 1]; n = -1 gives min, n = 0
\* gives default, n = 1 gives max, and for min <= default <= max the value
\* does not decrease when n grows.
C29_AxisValue ==
  \A r \in {obs.normalized[i] : i \in 1..Len(obs.normalized)} :
    /\ \A n \in DOMAIN r.values :
         /\ n.num <= -AvarSteps * n.den => r.values[n].num = r.axis.minValue * r.values[n].den
         /\ n.num = 0 => r.values[n].num = r.axis.defaultValue * r.values[n].den
         /\ n.num >= AvarSteps * n.den => r.values[n].num = r.axis.maxValue * r.values[n].den
    /\ (r.axis.minValue <= r.axis.defaultValue /\ r.axis.defaultValue <= r.axis.maxValue) =>
         \A n, m \in DOMAIN r.values :
           n.num * m.den <= m.num * n.den =>
             r.values[n].num * r.values[m].den <= r.values[m].num * r.values[n].den

\* an axis with min < default < max: a negative coordinate inside (-1, 0)
\* lies between min and default, a positive one inside (0, 1) above default
C29_Witness ==
  /\ obs.lastOp = "normalizedToAxisValue"
  /\ Len(obs.normalized) = 1
  /\ LET r == obs.normalized[1]
     IN /\ r.axis.minValue < r.axis.defaultValue
        /\ r.axis.defaultValue < r.axis.maxValue
        /\ \E n, m \in DOMAIN r.values :
             /\ n.num < 0 /\ n.num > -AvarSteps * n.den
             /\ m.num > 0 /\ m.num < AvarSteps * m.den
             /\ r.values[n].num < r.axis.defaultValue * r.values[n].den
             /\ r.values[n].num > r.axis.minValue * r.values[n].den
             /\ r.values[m].num > r.axis.defaultValue * r.values[m].den
             /\ r.values[m].num < r.axis.maxValue * r.values[m].den


C31_WriteOwnership ==
  [][/\ (obs'.lastOp # "populate" /\ obs'.lastTick = {}) => grid' = grid
     /\ obs'.lastTick # {} => obs'.lastOp \in {"tick", "timer", "resume"}
     /\ obs'.lastOp = "tick" =>
          /\ anim'.currentState = anim.currentState
          /\ dom'.transform = dom.transform
          /\ anim'.currentTarget = anim.currentTarget
          /\ anim'.currentScale = anim.currentScale
          /\ anim'.stateTransitionTimers = anim.stateTransitionTimers
     /\ obs'.lastOp = "pause" =>
          /\ anim'.currentState = anim.currentState
          /\ dom'.transform = dom.transform
          /\ grid' = grid]_vars

\* an interval tick refreshed a cell during ZoomIn, the phase timer pending
\* and the transform translated to the target
C31_Witness ==
  /\ obs.lastOp = "tick"
  /\ obs.lastTick # {}
  /\ anim.currentState = ZOOM_IN
  /\ Len(anim.stateTransitionTimers) = 1
  /\ dom.transform.tx # 0


\* C32: across any interleaving of start(), pause(), resume(), reset(),
\* destroy() and timer firings at most one phase-transition timer is pending
\* and at most one scheduler tick timer is active: the interval of the run
\* under way.
C32_OneTimerEach ==
  /\ Len(anim.stateTransitionTimers) <= 1
  /\ PendingTimers(World) <= 2
  /\ anim.glyphChangeTimerId # NoTimer =>
       /\ obs.run = "running"
       /\ anim.glyphChangeTickIndex < anim.glyphChangeTotalTicks

\* start() called while a phase timer and the tick interval were pending:
\* only the bootstrap timer is left
C32_Witness ==
  /\ obs.lastOp = "start"
  /\ obs.pendingBefore = 2
  /\ Len(anim.stateTransitionTimers) = 1
  /\ anim.stateTransitionTimers[1].kind = "initial"
  /\ anim.glyphChangeTimerId = NoTimer


\* C33: in every state with isPaused no phase-transition timer and no tick
\* timer is pending; so while isPaused stays true the animator changes
\* neither the phase nor the transform nor the content of any cell.
C33_PausedIsQuiet ==
  [][/\ anim.isPaused =>
          /\ anim.stateTransitionTimers = <<>>
          /\ anim.glyphChangeTimerId = NoTimer
     /\ (anim.isPaused /\ anim'.isPaused) =>
          /\ anim'.currentState = anim.currentState
          /\ dom'.transform = dom.transform
          /\ obs'.justEntered = "none"
          /\ obs'.lastTick = {}
          /\ obs'.lastOp # "populate" => grid' = grid]_vars

\* paused in the middle of a ZoomIn whose scheduler was running
C33_Witness ==
  /\ obs.lastOp = "pause"
  /\ anim.isPaused
  /\ obs.pendingBefore = 2
  /\ anim.currentState = ZOOM_IN
  /\ dom.transform.tx # 0


\* C34: in any scheduler run every cell is refreshed at most as often as the
\* count drawn for it, and at most once per tick: duplicate indices in one
\* bucket, carried overflow included, collapse to a single refresh.
C34_NoExtraRefresh ==
  [][/\ Len(obs'.delivered) = Len(obs'.drawn)
     /\ \A c \in 1..Len(obs'.drawn) : obs'.delivered[c] <= obs'.drawn[c]
     /\ obs'.overdelivered = {}
     /\ (obs'.lastOp = "tick" /\ obs.run = "running" /\ obs'.run = "running") =>
          \A c \in 1..Len(obs'.delivered) :
            obs'.delivered[c] - obs.delivered[c] = (IF (c - 1) \in obs'.lastTick THEN 1 ELSE 0)
     /\ (Len(obs'.scheduled) = 1 /\ obs'.run = "running") =>
          \A c \in 1..Len(obs'.delivered) :
            obs'.delivered[c] = (IF (c - 1) \in obs'.lastTick THEN 1 ELSE 0)]_vars

\* a run has ended in which a cell was refreshed less often than drawn, and
\* none more often
C34_Witness ==
  /\ obs.run = "done"
  /\ obs.lastOp = "tick"
  /\ obs.lastTick # {}
  /\ obs.undelivered # {}
  /\ obs.overdelivered = {}


\* C35: after reset() the animator stays idle until start() is called: no
\* sequence of pause() and resume() calls causes a phase transition, a
\* transform change or a cell refresh.
C35_IdleAfterReset ==
  [][(obs.sinceStart = "reset" /\ obs'.sinceStart = "reset") =>
       /\ obs'.justEntered = "none"
       /\ obs'.lastTick = {}
       /\ anim'.stateTransitionTimers = <<>>
       /\ obs'.lastOp # "reset" => dom'.transform = dom.transform]_vars


\* C36: a user pause persists: once the space key has paused the animator, no
\* phase is entered and no cell is refreshed until the space key resumes it,
\* whatever resize events, rebuilds and deferred start() calls occur in
\* between.
C36_UserPausePersists ==
  [][(obs.userPaused /\ obs'.userPaused) =>
       /\ obs'.justEntered = "none"
       /\ obs'.lastTick = {}]_vars


\* the last render pass ran start() on a grid populated since the last resize
\* event for the size the viewport has now
C37_StartedForViewport ==
  /\ obs.lastOp = "frame"
  /\ ~obs.viewportDirty
  /\ grid.viewportWidth = dom.width
  /\ grid.viewportHeight = dom.height
  /\ ~anim.isPaused
  /\ Len(anim.stateTransitionTimers) = 1
  /\ anim.stateTransitionTimers[1].kind = "initial"

\* the animation runs on a grid populated since the last resize event for
\* the size the viewport has now
C37_RunningForViewport ==
  /\ ~obs.viewportDirty
  /\ grid.viewportWidth = dom.width
  /\ grid.viewportHeight = dom.height
  /\ ~anim.isPaused
  /\ Len(anim.stateTransitionTimers) = 1

\* C37: the viewport-settlement retry loop makes progress: the viewport's
\* size changing only a finite number of times, every resize event that
\* schedules rebuilds is followed by a render pass that calls start() on a
\* grid rebuilt for the viewport's size, and from some point on the
\* animation runs on the grid built for the final size.
C37_SettlementProgress ==
  /\ (obs.lastOp = "resize" /\ app.resizeTimeouts # {}) ~> C37_StartedForViewport
  /\ (obs.lastOp = "resize" /\ app.resizeTimeouts # {}) ~> []C37_RunningForViewport

C37_Witness ==
  /\ C37_StartedForViewport
  /\ dom.width = 2 * DomInit.width
  /\ app.resizeTimeouts = {}

\* C38: for every axis with min <= default <= max every value
\* sampleAxisValue() returns lies in [min, max], on the uniform path and on
\* the warp-inversion path, and the result of invertAvar() lies in [-1, 1]
\* for any pair list and any target.
C38_SampleInRange ==
  \A map \in DOMAIN obs.sampled :
    LET call == obs.sampled[map]
        Within(f, lo, hi) == lo * f.den <= f.num /\ f.num <= hi * f.den
    IN /\ \A d \in DOMAIN call.values :
            Within(call.values[d], d[1].minValue, d[1].maxValue)
       /\ \A t \in DOMAIN call.inverted :
            Within(call.inverted[t], -AvarSteps, AvarSteps)


\* C39: at most one app instance is live at any time: every instance
\* constructed is destroyed before another becomes current, and once no
\* import is awaited currentKey names the app whose markup is in the
\* container.
C39_OneLiveApp ==
  /\ Cardinality(shell.live) <= 1
  /\ \A inst \in shell.live : inst.id = shell.currentApp
  /\ (shell.awaiting = <<>> /\ shell.currentKey # NoKey) => shell.container = shell.currentKey


\* C40: at most one word-update timer chain is active at any time, and after
\* stop() has returned no timer updates the displayed word until the next
\* start().
C40_OneTimerChain ==
  /\ (IF word.animationTimer THEN 1 ELSE 0) + word.orphans <= 1
  /\ word.sinceStop => ~word.updated

=============================================================================
